---- MODULE Spec2Model ----
(***************************************************************************)
(* Model of the CMMC scoping tool: the question engine                     *)
(* (scoping_tool/utils/question_engine.py) and the scope scorer            *)
(* (scoping_tool/utils/scoring.py).                                        *)
(*                                                                         *)
(* Python values are tagged records (PyBool, PyInt, PyStr, PyList, PyNone).         *)
(* A Python str is the sequence of its characters, one TLA+ string per     *)
(* character; the two non-ASCII characters of the shipped texts are the    *)
(* tokens "EMDASH" (U+2014) and "ENDASH" (U+2013).                         *)
(***************************************************************************)
EXTENDS Integers, Sequences, FiniteSets, TLC

VARIABLES questions, answers, idx, shown, printed, pc, flat, result,
          responses, saved, module, resume

vars == <<questions, answers, idx, shown, printed, pc, flat, result,
          responses, saved, module, resume>>

engineVars == <<questions, answers, idx, shown, printed>>
scorerVars == <<flat, result>>
sessionVars == <<responses, saved, module, resume>>

\* ---------------------------------------------------------------- bounds
\* Longest catalog handed to QuestionEngine.
MaxQuestions == 3
\* Longest df_03 selection in a scored Response Store.
MaxSelected == 2
\* Most answers in a Response Store that is scored again after an answer is added.
MaxAnswers == 2
\* Questions of each shipped module asked in an assessment run (the first ones).
MaxModuleQuestions == 2

\* ---------------------------------------------------------------- Python values
PyNone == [k |-> "none", b |-> FALSE, n |-> 0, s |-> <<>>, l |-> <<>>]
PyBool(x) == [k |-> "bool", b |-> x, n |-> 0, s |-> <<>>, l |-> <<>>]
PyInt(x) == [k |-> "int", b |-> FALSE, n |-> x, s |-> <<>>, l |-> <<>>]
PyStr(x) == [k |-> "str", b |-> FALSE, n |-> 0, s |-> x, l |-> <<>>]
PyList(x) == [k |-> "list", b |-> FALSE, n |-> 0, s |-> <<>>, l |-> x]

\* isinstance(v, bool), isinstance(v, str), isinstance(v, list)
IsBool(v) == v.k = "bool"
IsStr(v) == v.k = "str"
IsList(v) == v.k = "list"

\* v is True / v is False / v is None
IsTrue(v) == v.k = "bool" /\ v.b
IsFalse(v) == v.k = "bool" /\ ~v.b
IsNone(v) == v.k = "none"

\* Python's ==: bool is a subclass of int (True == 1, False == 0); values of
\* unrelated types are unequal.
NumOf(v) == IF v.k = "bool" THEN (IF v.b THEN 1 ELSE 0) ELSE v.n
PyEq(a, b) ==
    IF a.k \in {"bool", "int"} /\ b.k \in {"bool", "int"}
    THEN NumOf(a) = NumOf(b)
    ELSE a = b

\* bool(v)
Truthy(v) ==
    CASE v.k = "bool" -> v.b
      [] v.k = "int"  -> v.n # 0
      [] v.k = "str"  -> Len(v.s) > 0
      [] v.k = "list" -> Len(v.l) > 0
      [] OTHER        -> FALSE

\* dict.get(key, default)
Get(d, key, default) == IF key \in DOMAIN d THEN d[key] ELSE default

\* d[key] = value on a dict
Put(d, key, value) == (key :> value) @@ d

EmptyDict == <<>>

\* ---------------------------------------------------------------- files
\* A JSON file of the tool: no file at the path, or a file whose text
\* json.load turns into a dict (parses) or not; metadata, has_responses and
\* has_score say which of the keys "metadata", "responses" and "score" the
\* dict holds.  _autosave writes the first two, _finalize all three.
NoFile ==
    [exists |-> FALSE, parses |-> FALSE, metadata |-> FALSE, has_responses |-> FALSE,
     responses |-> <<>>, has_score |-> FALSE, score |-> PyNone]

\* No ScopingAssessment is running: the engine or the scorer is used alone.
SessionIdle ==
    /\ responses = EmptyDict
    /\ saved = NoFile
    /\ module = 1
    /\ resume = NoFile

\* ---------------------------------------------------------------- Python str
UpperCase == <<"A","B","C","D","E","F","G","H","I","J","K","L","M",
               "N","O","P","Q","R","S","T","U","V","W","X","Y","Z">>
LowerCase == <<"a","b","c","d","e","f","g","h","i","j","k","l","m",
               "n","o","p","q","r","s","t","u","v","w","x","y","z">>

LowerChar(c) ==
    IF \E i \in 1..Len(UpperCase) : UpperCase[i] = c
    THEN LowerCase[CHOOSE i \in 1..Len(UpperCase) : UpperCase[i] = c]
    ELSE c

\* s.lower()
Lower(s) == [i \in 1..Len(s) |-> LowerChar(s[i])]

\* sub in s  (substring test on two str)
Contains(sub, s) ==
    \E i \in 0..(Len(s) - Len(sub)) :
        \A j \in 1..Len(sub) : s[i + j] = sub[j]

\* x in xs  (membership in a list or tuple: some element == x)
InList(x, xs) == \E i \in 1..Len(xs) : PyEq(xs[i], x)

\* str.strip(): inputs are typed on one line, the only whitespace is " "
RECURSIVE LStrip(_)
LStrip(s) == IF Len(s) > 0 /\ s[1] = " " THEN LStrip(Tail(s)) ELSE s
RECURSIVE RStrip(_)
RStrip(s) ==
    IF Len(s) > 0 /\ s[Len(s)] = " " THEN RStrip(SubSeq(s, 1, Len(s) - 1)) ELSE s
Strip(s) == RStrip(LStrip(s))

\* s.split(sep) for a one-character separator: the list of the pieces
RECURSIVE Split(_, _)
Split(s, sep) ==
    IF \E i \in 1..Len(s) : s[i] = sep
    THEN LET i == CHOOSE i \in 1..Len(s) :
                      s[i] = sep /\ \A j \in 1..(i - 1) : s[j] # sep
         IN <<SubSeq(s, 1, i - 1)>> \o Split(SubSeq(s, i + 1, Len(s)), sep)
    ELSE <<s>>

\* int(s): decimal digits with an optional sign; anything else is a ValueError
Digits == <<"0","1","2","3","4","5","6","7","8","9">>
IsDigit(c) == \E i \in 1..Len(Digits) : Digits[i] = c
DigitVal(c) == (CHOOSE i \in 1..Len(Digits) : Digits[i] = c) - 1
RECURSIVE NatOf(_)
NatOf(s) == IF Len(s) = 0 THEN 0
            ELSE 10 * NatOf(SubSeq(s, 1, Len(s) - 1)) + DigitVal(s[Len(s)])
IsIntLiteral(s0) ==
    LET s == Strip(s0)
        body == IF Len(s) > 0 /\ s[1] \in {"-", "+"} THEN Tail(s) ELSE s
    IN Len(body) > 0 /\ \A i \in 1..Len(body) : IsDigit(body[i])
IntOf(s0) ==
    LET s == Strip(s0)
    IN IF Len(s) > 0 /\ s[1] = "-" THEN 0 - NatOf(Tail(s))
       ELSE IF Len(s) > 0 /\ s[1] = "+" THEN NatOf(Tail(s))
       ELSE NatOf(s)

\* ---------------------------------------------------------------- Question
\* QuestionType
YES_NO == "YES_NO"
CHOICE == "CHOICE"
MULTI_CHOICE == "MULTI_CHOICE"
TEXT == "TEXT"
NUMBER == "NUMBER"
QuestionType == {YES_NO, CHOICE, MULTI_CHOICE, TEXT, NUMBER}

\* Question.depends_on: None, or the tuple (question_id, expected_value)
NoDep == [has |-> FALSE, id |-> "", expected |-> PyNone]
Dep(d, e) == [has |-> TRUE, id |-> d, expected |-> e]

Question(id, qtype, choices, depends_on) ==
    [id |-> id, qtype |-> qtype, choices |-> choices, depends_on |-> depends_on]

\* ---------------------------------------------------------------- QuestionEngine
s_y == <<"y">>
s_yes == <<"y","e","s">>
s_true == <<"t","r","u","e">>
s_1 == <<"1">>
s_n == <<"n">>
s_no == <<"n","o">>
s_all == <<"a","l","l">>

\* _to_bool with strings left un-normalised (every str maps to None)
_to_bool_str_is_none(value) ==
    IF IsBool(value) THEN value ELSE PyNone

\* QuestionEngine._to_bool: Optional[bool]
_to_bool(value) ==
    IF IsBool(value) THEN value
    ELSE IF IsStr(value) THEN PyBool(Lower(value.s) \in {s_y, s_yes, s_true, s_1})
    ELSE PyNone

\* The dependency check with a missing depends_on read as an unmet dependency
DependencyMet_requires_dep(q, ans) ==
    /\ q.depends_on.has
    /\ LET dep_answer == Get(ans, q.depends_on.id, PyNone)
       IN IF IsBool(q.depends_on.expected)
          THEN PyEq(_to_bool(dep_answer), q.depends_on.expected)
          ELSE PyEq(dep_answer, q.depends_on.expected)

\* The dependency check of QuestionEngine.run: TRUE when the loop does not
\* `continue`, i.e. the question is printed and asked.
DependencyMet(q, ans) ==
    IF ~q.depends_on.has THEN TRUE
    ELSE LET dep_id == q.depends_on.id
             expected == q.depends_on.expected
             dep_answer == Get(ans, dep_id, PyNone)
         IN IF IsBool(expected)
            THEN PyEq(_to_bool(dep_answer), expected)
            ELSE PyEq(dep_answer, expected)

\* An answer collector's outcome on one line of input: a value returned, or
\* a re-prompt (the loop of the collector goes round again).
Returned(v) == [ok |-> TRUE, value |-> v]
Reprompt == [ok |-> FALSE, value |-> PyNone]

\* QuestionEngine._ask_yes_no
_ask_yes_no(line) ==
    LET ans == Lower(Strip(line))
    IN IF ans \in {s_y, s_yes} THEN Returned(PyBool(TRUE))
       ELSE IF ans \in {s_n, s_no} THEN Returned(PyBool(FALSE))
       ELSE Reprompt

\* QuestionEngine._ask_choice
_ask_choice(choices, line) ==
    LET ans == Strip(line)
    IN IF IsIntLiteral(ans) /\ 0 <= IntOf(ans) - 1 /\ IntOf(ans) - 1 < Len(choices)
       THEN Returned(PyStr(choices[IntOf(ans)]))
       ELSE Reprompt

\* the list comprehension [choices[i] for i in indices if 0 <= i < len(choices)]
RECURSIVE SelectValid(_, _)
SelectValid(choices, parts) ==
    IF Len(parts) = 0 THEN <<>>
    ELSE LET i == IntOf(parts[1]) - 1
         IN (IF 0 <= i /\ i < Len(choices) THEN <<PyStr(choices[i + 1])>> ELSE <<>>)
            \o SelectValid(choices, Tail(parts))

\* QuestionEngine._ask_multi_choice
_ask_multi_choice(choices, line) ==
    LET ans == Strip(line)
        parts == Split(ans, ",")
    IN IF Lower(ans) = s_all
       THEN Returned(PyList([i \in 1..Len(choices) |-> PyStr(choices[i])]))
       ELSE IF (\A i \in 1..Len(parts) : IsIntLiteral(parts[i]))
               /\ Len(SelectValid(choices, parts)) > 0
       THEN Returned(PyList(SelectValid(choices, parts)))
       ELSE Reprompt

\* QuestionEngine._collect_answer
_collect_answer(q, line) ==
    CASE q.qtype = YES_NO       -> _ask_yes_no(line)
      [] q.qtype = CHOICE       -> _ask_choice(q.choices, line)
      [] q.qtype = MULTI_CHOICE -> _ask_multi_choice(q.choices, line)
      [] q.qtype = TEXT         ->
            IF Len(Strip(line)) > 0 THEN Returned(PyStr(Strip(line)))
            ELSE Returned(PyNone)
      [] q.qtype = NUMBER       ->
            IF IsIntLiteral(line) THEN Returned(PyInt(IntOf(line))) ELSE Reprompt

\* ---------------------------------------------------------------- catalogs and input
\* Question ids of the catalogs explored (unique within a catalog).
QIds == <<"q1", "q2", "q3", "q4", "q5">>

s_Yes == <<"Y","e","s">>
s_Other == <<"O","t","h","e","r">>

\* Expected values of a dependency.
ExpectedValues == {PyBool(TRUE), PyBool(FALSE), PyStr(s_Yes), PyNone}

\* The dependencies the question at position i may carry: none, or any
\* expected value of any earlier question of the catalog (a dependency names
\* a question that appears earlier than its dependent).
DependenciesAt(i) ==
    {NoDep} \cup {Dep(QIds[j], e) : j \in 1..(i - 1), e \in ExpectedValues}

\* Choice labels of the CHOICE and MULTI_CHOICE questions explored.
GenericChoices == <<s_Yes, s_Other>>

ChoicesFor(qtype) == IF qtype \in {CHOICE, MULTI_CHOICE} THEN GenericChoices ELSE <<>>

\* The questions position i of a catalog may hold.
QuestionsAt(i) ==
    { Question(QIds[i], qtype, ChoicesFor(qtype), dep) :
        qtype \in QuestionType, dep \in DependenciesAt(i) }

\* The catalogs of n questions.
RECURSIVE CatalogsOfLen(_)
CatalogsOfLen(n) ==
    IF n = 0 THEN {<<>>}
    ELSE { Append(c, q) : c \in CatalogsOfLen(n - 1), q \in QuestionsAt(n) }

\* Lines the user may type at the prompt of a question (input()).
InputLines(q) ==
    CASE q.qtype = YES_NO       -> { <<"y">>, <<" ","Y","E","S">>, <<"N","o">>, <<"m","a","y","b","e">>, <<>> }
      [] q.qtype = CHOICE       -> { <<"1">>, <<" ","2">>, <<"3">>, <<"0">>, <<"x">> }
      [] q.qtype = MULTI_CHOICE -> { <<"A","L","L">>, <<"2",","," ","9">>, <<"9">>, <<"1",",","x">>, <<"1",",","1">>, <<>> }
      [] q.qtype = TEXT         -> { <<>>, <<" ">>, <<"Y","e","s"," ">>, <<"n","o">> }
      [] q.qtype = NUMBER       -> { <<"1">>, <<"-","2">>, <<"x">>, <<>> }

\* ---------------------------------------------------------------- QuestionEngine.run
\* QuestionEngine.__init__ followed by the entry of run():
\* answers = {}, shown = 0, the loop at the first question.
InitEngine ==
    /\ \E n \in 0..MaxQuestions :
          questions \in CatalogsOfLen(n)
    /\ answers = EmptyDict
    /\ idx = 1
    /\ shown = 0
    /\ printed = <<>>
    /\ pc = "run"
    /\ flat = EmptyDict
    /\ result = PyNone
    /\ SessionIdle

\* RunSkip with the skipped question counted in `shown`
RunSkip_counts_skipped ==
    /\ pc = "run"
    /\ idx <= Len(questions)
    /\ ~DependencyMet(questions[idx], answers)
    /\ idx' = idx + 1
    /\ shown' = shown + 1
    /\ UNCHANGED <<questions, answers, printed, pc, flat, result>>
    /\ UNCHANGED sessionVars

\* One iteration of the loop whose dependency check ends in `continue`.
RunSkip ==
    /\ pc = "run"
    /\ idx <= Len(questions)
    /\ ~DependencyMet(questions[idx], answers)
    /\ idx' = idx + 1
    /\ UNCHANGED <<questions, answers, shown, printed, pc, flat, result>>
    /\ UNCHANGED sessionVars

\* One iteration of the loop that presents the question: shown += 1,
\* _print_question(q, shown), _collect_answer(q) (which re-prompts until a
\* line is accepted) and answers[q.id] = answer.
RunAsk ==
    /\ pc = "run"
    /\ idx <= Len(questions)
    /\ DependencyMet(questions[idx], answers)
    /\ \E line \in InputLines(questions[idx]) :
          /\ _collect_answer(questions[idx], line).ok
          /\ answers' = Put(answers, questions[idx].id,
                            _collect_answer(questions[idx], line).value)
    /\ shown' = shown + 1
    /\ printed' = Append(printed, [q |-> idx, num |-> shown + 1])
    /\ idx' = idx + 1
    /\ UNCHANGED <<questions, pc, flat, result>>
    /\ UNCHANGED sessionVars

\* The loop is exhausted: return self.answers.
RunReturn ==
    /\ pc = "run"
    /\ idx > Len(questions)
    /\ pc' = "done"
    /\ UNCHANGED <<questions, answers, idx, shown, printed, flat, result>>
    /\ UNCHANGED sessionVars

NextEngine == RunSkip \/ RunAsk \/ RunReturn

SpecEngine == InitEngine /\ [][NextEngine]_vars

\* ---------------------------------------------------------------- str() and sorted()
\* str(n) for an int
RECURSIVE NatStr(_)
NatStr(n) == IF n < 10 THEN <<Digits[n + 1]>>
             ELSE NatStr(n \div 10) \o <<Digits[(n % 10) + 1]>>
IntStr(n) == IF n < 0 THEN <<"-">> \o NatStr(0 - n) ELSE NatStr(n)

s_True == <<"T","r","u","e">>
s_False == <<"F","a","l","s","e">>
s_None == <<"N","o","n","e">>
s_empty == <<>>

\* sep.join(parts) on a list of str
RECURSIVE Join(_, _)
Join(sep, parts) ==
    IF Len(parts) = 0 THEN <<>>
    ELSE IF Len(parts) = 1 THEN parts[1]
    ELSE parts[1] \o sep \o Join(sep, Tail(parts))

\* repr(v): a str is quoted with ' (the texts handled hold no quote,
\* backslash or control character); a list is "[" + ", ".join(repr) + "]".
RECURSIVE Repr(_)
Repr(v) ==
    CASE v.k = "bool" -> IF v.b THEN s_True ELSE s_False
      [] v.k = "int"  -> IntStr(v.n)
      [] v.k = "str"  -> <<"'">> \o v.s \o <<"'">>
      [] v.k = "list" ->
            <<"[">> \o Join(<<",", " ">>, [i \in 1..Len(v.l) |-> Repr(v.l[i])]) \o <<"]">>
      [] OTHER        -> s_None

\* str(v)
StrOf(v) == IF v.k = "str" THEN v.s ELSE Repr(v)

\* Characters in code point order (those of the control identifiers).
CodePointOrder == <<" ", ".", "/", "0","1","2","3","4","5","6","7","8","9",
                    "A","B","C","D","E","F","G","H","I","J","K","L","M",
                    "N","O","P","Q","R","S","T","U","V","W","X","Y","Z">>
Ord(c) == CHOOSE i \in 1..Len(CodePointOrder) : CodePointOrder[i] = c

\* a < b on two str
RECURSIVE StrLess(_, _)
StrLess(a, b) ==
    IF Len(b) = 0 THEN FALSE
    ELSE IF Len(a) = 0 THEN TRUE
    ELSE IF a[1] = b[1] THEN StrLess(Tail(a), Tail(b))
    ELSE Ord(a[1]) < Ord(b[1])

\* sorted(S) for a set of str
RECURSIVE Sorted(_)
Sorted(S) ==
    IF S = {} THEN <<>>
    ELSE LET m == CHOOSE x \in S : \A y \in S \ {x} : StrLess(x, y)
         IN <<m>> \o Sorted(S \ {m})

\* ---------------------------------------------------------------- data_flow.CUI_CATEGORIES
CUI_CATEGORIES ==
    <<<<"A","c","q","u","i","s","i","t","i","o","n"," ","&"," ","P","r","o","c","u","r","e","m","e","n","t"," ","(","e",".","g",".",","," ","c","o","n","t","r","a","c","t"," ","d","a","t","a",","," ","b","i","d"," ","i","n","f","o","r","m","a","t","i","o","n",")">>,
      <<"D","e","f","e","n","s","e"," ","&"," ","M","i","l","i","t","a","r","y"," ","(","e",".","g",".",","," ","t","e","c","h","n","i","c","a","l"," ","s","p","e","c","s",","," ","w","e","a","p","o","n","s"," ","s","y","s","t","e","m"," ","d","a","t","a",")">>,
      <<"E","x","p","o","r","t"," ","C","o","n","t","r","o","l","l","e","d"," ","(","I","T","A","R"," ","/"," ","E","A","R"," ","c","o","n","t","r","o","l","l","e","d"," ","t","e","c","h","n","i","c","a","l"," ","d","a","t","a",")">>,
      <<"F","i","n","a","n","c","i","a","l"," ","(","e",".","g",".",","," ","c","o","s","t","/","p","r","i","c","i","n","g"," ","d","a","t","a",","," ","b","u","d","g","e","t"," ","i","n","f","o","r","m","a","t","i","o","n",")">>,
      <<"I","n","t","e","l","l","i","g","e","n","c","e"," ","(","e",".","g",".",","," ","t","h","r","e","a","t"," ","a","s","s","e","s","s","m","e","n","t","s",","," ","S","I","G","I","N","T"," ","p","r","o","d","u","c","t","s",")">>,
      <<"L","a","w"," ","E","n","f","o","r","c","e","m","e","n","t"," ","S","e","n","s","i","t","i","v","e">>,
      <<"P","r","i","v","a","c","y"," ","/"," ","P","e","r","s","o","n","a","l","l","y"," ","I","d","e","n","t","i","f","i","a","b","l","e"," ","I","n","f","o","r","m","a","t","i","o","n"," ","(","P","I","I",")">>,
      <<"P","r","o","p","r","i","e","t","a","r","y"," ","B","u","s","i","n","e","s","s"," ","I","n","f","o","r","m","a","t","i","o","n">>,
      <<"R","e","s","e","a","r","c","h"," ","&"," ","D","e","v","e","l","o","p","m","e","n","t"," ","(","p","r","e","-","d","e","c","i","s","i","o","n","a","l"," ","R","&","D"," ","d","a","t","a",")">>,
      <<"O","t","h","e","r"," ","C","U","I"," ","(","s","p","e","c","i","f","y"," ","i","n"," ","r","e","p","o","r","t",")">>,
      <<"I"," ","a","m"," ","n","o","t"," ","s","u","r","e"," ","EMDASH"," ","n","e","e","d"," ","h","e","l","p"," ","i","d","e","n","t","i","f","y","i","n","g">>>>

\* ---------------------------------------------------------------- ScopeScorer
s_I_am_not_sure == <<"I"," ","a","m"," ","n","o","t"," ","s","u","r","e">>

\* The test `"I am not sure" not in (cui_cats or [])` raises TypeError when
\* cui_cats is truthy and neither a list nor a str (a number, True).
_cui_in_scope_raises(f) ==
    LET cui_cats == Get(f, "df_03", PyList(<<>>))
    IN Truthy(cui_cats) /\ cui_cats.k \in {"bool", "int"}

\* ScopeScorer._cui_in_scope
_cui_in_scope(f) ==
    LET handles_gov == IsTrue(Get(f, "df_01", PyNone))
        has_dfars == IsTrue(Get(f, "df_02", PyNone))
        cui_cats == Get(f, "df_03", PyList(<<>>))
        has_cui_cats ==
            /\ Truthy(cui_cats)
            /\ IF IsList(cui_cats) THEN ~InList(PyStr(s_I_am_not_sure), cui_cats.l)
               ELSE IF IsStr(cui_cats) THEN ~Contains(s_I_am_not_sure, cui_cats.s)
               ELSE FALSE
    IN handles_gov /\ (has_dfars \/ has_cui_cats)

\* _fci_in_scope reading df_09 only
_fci_in_scope_df09_only(f) == IsTrue(Get(f, "df_09", PyNone))

\* ScopeScorer._fci_in_scope
_fci_in_scope(f) ==
    IsTrue(Get(f, "df_01", PyNone)) \/ IsTrue(Get(f, "df_09", PyNone))

LEVEL_2 == "Level 2"
LEVEL_1 == "Level 1"
NOT_REQUIRED == "Not Required (verify contract requirements)"

\* _cmmc_level testing fci before cui
_cmmc_level_fci_first(cui, fci) ==
    IF fci THEN LEVEL_1 ELSE IF cui THEN LEVEL_2 ELSE NOT_REQUIRED

\* ScopeScorer._cmmc_level
_cmmc_level(cui, fci) ==
    IF cui THEN LEVEL_2 ELSE IF fci THEN LEVEL_1 ELSE NOT_REQUIRED

\* Substrings the rules look for.
k_No_password == <<"N","o"," ","EMDASH"," ","p","a","s","s","w","o","r","d">>
k_Partial == <<"P","a","r","t","i","a","l">>
k_no_MFA == <<"n","o"," ","M","F","A">>
k_direct_RDP == <<"d","i","r","e","c","t"," ","R","D","P">>
k_No == <<"N","o">>
k_not_sure == <<"n","o","t"," ","s","u","r","e">>
k_plaintext == <<"p","l","a","i","n","t","e","x","t">>
k_No_all_systems_share == <<"N","o"," ","EMDASH"," ","a","l","l"," ","s","y","s","t","e","m","s"," ","s","h","a","r","e">>
k_None == <<"N","o","n","e">>
k_No_logging == <<"N","o"," ","l","o","g","g","i","n","g">>
k_unrestricted == <<"u","n","r","e","s","t","r","i","c","t","e","d">>
k_No_dash == <<"N","o"," ","EMDASH">>
k_No_formal == <<"N","o"," ","f","o","r","m","a","l">>
k_no_known == <<"n","o"," ","k","n","o","w","n">>
k_physically_separate == <<"p","h","y","s","i","c","a","l","l","y"," ","s","e","p","a","r","a","t","e">>
k_logically_separated == <<"l","o","g","i","c","a","l","l","y"," ","s","e","p","a","r","a","t","e","d">>
k_Partially == <<"P","a","r","t","i","a","l","l","y">>

\* nist_control texts of the gap rules.
c_IA_3_083 == <<"I","A",".","3",".","0","8","3">>
c_AC_1_001__IA_3_083 == <<"A","C",".","1",".","0","0","1"," ","/"," ","I","A",".","3",".","0","8","3">>
c_SC_3_177 == <<"S","C",".","3",".","1","7","7">>
c_SC_3_180 == <<"S","C",".","3",".","1","8","0">>
c_SC_3_180__AC_1_001 == <<"S","C",".","3",".","1","8","0"," ","/"," ","A","C",".","1",".","0","0","1">>
c_CM_2_061 == <<"C","M",".","2",".","0","6","1">>
c_AU_2_041 == <<"A","U",".","2",".","0","4","1">>
c_AC_1_002 == <<"A","C",".","1",".","0","0","2">>
c_AC_2_006__MP_2_119 == <<"A","C",".","2",".","0","0","6"," ","/"," ","M","P",".","2",".","1","1","9">>
c_AC_1_001__MP_2_119 == <<"A","C",".","1",".","0","0","1"," ","/"," ","M","P",".","2",".","1","1","9">>
c_AT_2_056 == <<"A","T",".","2",".","0","5","6">>
c_AC_2_006 == <<"A","C",".","2",".","0","0","6">>

HIGH == "HIGH"
MEDIUM == "MEDIUM"

\* The dict appended by the local function gap(); the detail text is fixed
\* per rule (rule 6 formats the bd_06a answer into it) and is left out.
Gap(control, title, priority) ==
    [nist_control |-> control, title |-> title, priority |-> priority]

\* str(self.flat.get(id, "")).lower()
StrGet_lowered(f, id) == Lower(StrOf(Get(f, id, PyStr(s_empty))))

\* str(self.flat.get(id, ""))
StrGet(f, id) == StrOf(Get(f, id, PyStr(s_empty)))

\* Rule 6 formats ', '.join(shared) into the detail when shared is a list:
\* str.join raises TypeError on an element that is not a str.
SharedServicesFires(f) ==
    /\ IsTrue(Get(f, "bd_06", PyNone))
    /\ Truthy(Get(f, "bd_06a", PyList(<<>>)))
    /\ ~Contains(k_None, StrOf(Get(f, "bd_06a", PyList(<<>>))))

_identify_gaps_raises(f) ==
    /\ SharedServicesFires(f)
    /\ IsList(f["bd_06a"])
    /\ \E i \in 1..Len(f["bd_06a"].l) : ~IsStr(f["bd_06a"].l[i])

\* a rule that appends its record twice
If_twice(cond, g) == IF cond THEN <<g, g>> ELSE <<>>

If(cond, g) == IF cond THEN <<g>> ELSE <<>>

\* ScopeScorer._identify_gaps: the rules in order, each appending one dict
_identify_gaps(f) ==
    If(Contains(k_No_password, StrGet(f, "ac_02")) \/ Contains(k_Partial, StrGet(f, "ac_02")),
       Gap(c_IA_3_083, "Multi-Factor Authentication Not Fully Implemented", HIGH))
    \o If(Contains(k_no_MFA, StrGet(f, "ac_05")) \/ Contains(k_direct_RDP, StrGet(f, "ac_05")),
       Gap(c_AC_1_001__IA_3_083, "Remote Access Lacks MFA or VPN Protection", HIGH))
    \o If(Contains(k_No, StrGet(f, "df_06")) \/ Contains(k_not_sure, Lower(StrGet(f, "df_06"))),
       Gap(c_SC_3_177, "CUI Not Encrypted at Rest", HIGH))
    \o If(Contains(k_plaintext, Lower(StrGet(f, "df_07")))
            \/ Contains(k_not_sure, Lower(StrGet(f, "df_07"))),
       Gap(c_SC_3_177, "CUI Not Encrypted in Transit", HIGH))
    \o If(Contains(k_No_all_systems_share, StrGet(f, "bd_02")),
       Gap(c_SC_3_180, "No Network Segmentation for CUI Systems", HIGH))
    \o If(SharedServicesFires(f),
       Gap(c_SC_3_180__AC_1_001, "Shared Services Span CUI and Non-CUI Environments", HIGH))
    \o If(IsFalse(Get(f, "bd_07", PyNone)),
       Gap(c_CM_2_061, "No System Security Plan (SSP)", HIGH))
    \o If(IsFalse(Get(f, "bd_08", PyNone)),
       Gap(c_CM_2_061, "SPRS Score Not Submitted", MEDIUM))
    \o If(Contains(k_No_logging, StrGet(f, "ac_07")),
       Gap(c_AU_2_041, "No Audit Logging on CUI Systems", HIGH))
    \o If(IsFalse(Get(f, "ac_03", PyNone)),
       Gap(c_AC_1_002, "No Separation of Privileged and Standard Accounts", MEDIUM))
    \o If(Contains(k_unrestricted, Lower(StrGet(f, "ac_08"))) \/ Contains(k_No_dash, StrGet(f, "ac_08")),
       Gap(c_AC_2_006__MP_2_119, "Removable Media Not Controlled", MEDIUM))
    \o If(IsTrue(Get(f, "si_04", PyNone)),
       Gap(c_AC_1_001__MP_2_119, "Personal Devices (BYOD) Used for Work Activities", MEDIUM))
    \o If(Contains(k_No_formal, StrGet(f, "ac_09")),
       Gap(c_AT_2_056, "No Formal Cybersecurity Awareness Training Program", MEDIUM))
    \o If(Truthy(Get(f, "df_08a", PyStr(s_empty)))
            /\ (Contains(k_no_known, Lower(StrGet(f, "df_08a")))
                  \/ Contains(k_not_sure, Lower(StrGet(f, "df_08a")))),
       Gap(c_AC_2_006, "Subcontractors Handling CUI Lack CMMC Certification", HIGH))

\* _enclave_recommended without the `cui and` conjunct
_enclave_recommended_ignores_cui(f) ==
    LET bd_03 == Get(f, "bd_03", PyNone)
    IN (IsFalse(bd_03) \/ IsNone(bd_03))
       /\ (IsFalse(Get(f, "bd_01", PyNone)) \/ ~IsFalse(Get(f, "bd_04", PyNone)))

\* _enclave_recommended with `willing` read as bd_04 is True
_enclave_recommended_needs_willing(f) ==
    LET cui == _cui_in_scope(f)
        no_enclave == IsFalse(Get(f, "bd_03", PyNone)) \/ IsNone(Get(f, "bd_03", PyNone))
        not_all == IsFalse(Get(f, "bd_01", PyNone))
        willing == IsTrue(Get(f, "bd_04", PyNone))
    IN cui /\ no_enclave /\ (not_all \/ willing)

\* ScopeScorer._enclave_recommended
_enclave_recommended(f) ==
    LET cui == _cui_in_scope(f)
        no_enclave == IsFalse(Get(f, "bd_03", PyNone)) \/ IsNone(Get(f, "bd_03", PyNone))
        not_all == IsFalse(Get(f, "bd_01", PyNone))
        willing == ~IsFalse(Get(f, "bd_04", PyNone))
    IN cui /\ no_enclave /\ (not_all \/ willing)

\* si_01 bucket labels, the keys of total_map
BUCKET_1 == <<"1","ENDASH","1","0">>
BUCKET_2 == <<"1","1","ENDASH","5","0">>
BUCKET_3 == <<"5","1","ENDASH","2","0","0">>
BUCKET_4 == <<"2","0","1","ENDASH","5","0","0">>
BUCKET_5 == <<"5","0","0","+">>

\* total_map.get(key, 10): a key that is no str equals none of the keys
total_map_get(key) ==
    IF ~IsStr(key) THEN 10
    ELSE CASE key.s = BUCKET_1 -> 10
           [] key.s = BUCKET_2 -> 50
           [] key.s = BUCKET_3 -> 200
           [] key.s = BUCKET_4 -> 500
           [] key.s = BUCKET_5 -> 999
           [] OTHER -> 10

\* A list is unhashable: total_map.get(<list>, 10) raises TypeError.
_estimate_systems_in_scope_raises(f) == IsList(Get(f, "si_01", PyStr(BUCKET_1)))

Max(a, b) == IF a >= b THEN a ELSE b

s_estimated_enclave == <<" ","(","e","s","t","i","m","a","t","e","d"," ","e","n","c","l","a","v","e"," ","s","y","s","t","e","m","s"," ","o","n","l","y",")">>
s_estimated == <<" ","(","e","s","t","i","m","a","t","e","d",")">>

\* _estimate_systems_in_scope testing the separation answer before bd_01
_estimate_systems_in_scope_separation_first(f) ==
    LET total == total_map_get(Get(f, "si_01", PyStr(BUCKET_1)))
        boundary == StrGet(f, "bd_02")
    IN IF Contains(k_physically_separate, boundary)
            \/ Contains(k_logically_separated, boundary)
       THEN <<"~">> \o IntStr(Max(1, total \div 5)) \o s_estimated_enclave
       ELSE IF Contains(k_Partially, boundary)
       THEN <<"~">> \o IntStr(Max(1, total \div 2)) \o s_estimated
       ELSE IntStr(total)

\* ScopeScorer._estimate_systems_in_scope
_estimate_systems_in_scope(f) ==
    LET total == total_map_get(Get(f, "si_01", PyStr(BUCKET_1)))
        boundary == StrGet(f, "bd_02")
    IN IF IsTrue(Get(f, "bd_01", PyNone)) THEN IntStr(total)
       ELSE IF Contains(k_physically_separate, boundary)
                 \/ Contains(k_logically_separated, boundary)
       THEN <<"~">> \o IntStr(Max(1, total \div 5)) \o s_estimated_enclave
       ELSE IF Contains(k_Partially, boundary)
       THEN <<"~">> \o IntStr(Max(1, total \div 2)) \o s_estimated
       ELSE IntStr(total)

\* _scope_reduction_possible with `bd_01 is not True`
_scope_reduction_possible_not_true(f) ==
    /\ ~IsTrue(Get(f, "bd_01", PyNone))
    /\ (IsTrue(Get(f, "bd_01a", PyNone)) \/ IsTrue(Get(f, "bd_04", PyNone)))

\* ScopeScorer._scope_reduction_possible
_scope_reduction_possible(f) ==
    /\ IsFalse(Get(f, "bd_01", PyNone))
    /\ (IsTrue(Get(f, "bd_01a", PyNone)) \/ IsTrue(Get(f, "bd_04", PyNone)))

\* _nist_control_gaps without c.strip()
_nist_control_gaps_untrimmed(gaps) ==
    Sorted(UNION { { Split(gaps[i].nist_control, "/")[j] :
                       j \in 1..Len(Split(gaps[i].nist_control, "/")) } :
                   i \in 1..Len(gaps) })

\* ScopeScorer._nist_control_gaps
_nist_control_gaps(gaps) ==
    Sorted(UNION { { Strip(Split(gaps[i].nist_control, "/")[j]) :
                       j \in 1..Len(Split(gaps[i].nist_control, "/")) } :
                   i \in 1..Len(gaps) })

\* [g for g in gaps if g["priority"] == "HIGH"]
RECURSIVE HighOnly(_)
HighOnly(gaps) ==
    IF Len(gaps) = 0 THEN <<>>
    ELSE (IF gaps[1].priority = HIGH THEN <<gaps[1]>> ELSE <<>>) \o HighOnly(Tail(gaps))

\* calculate() raises when one of the methods it calls raises.
calculate_raises(f) ==
    \/ _cui_in_scope_raises(f)
    \/ _identify_gaps_raises(f)
    \/ _estimate_systems_in_scope_raises(f)

\* calculate() keeping only the record of the last rule that fired
calculate_last_gap_only(f) ==
    LET cui_in_scope == _cui_in_scope(f)
        fci_in_scope == _fci_in_scope(f)
        all == _identify_gaps(f)
        gaps == IF Len(all) = 0 THEN all ELSE <<all[Len(all)]>>
    IN [ cui_in_scope |-> cui_in_scope,
         fci_in_scope |-> fci_in_scope,
         cmmc_level_required |-> _cmmc_level(cui_in_scope, fci_in_scope),
         enclave_recommended |-> _enclave_recommended(f),
         systems_in_scope |-> _estimate_systems_in_scope(f),
         compliance_gaps |-> gaps,
         gap_count |-> Len(gaps),
         high_priority_gaps |-> HighOnly(gaps),
         nist_control_gaps |-> _nist_control_gaps(gaps),
         scope_reduction_possible |-> _scope_reduction_possible(f) ]

\* ScopeScorer.calculate: the dict returned
calculate(f) ==
    LET cui_in_scope == _cui_in_scope(f)
        fci_in_scope == _fci_in_scope(f)
        gaps == _identify_gaps(f)
    IN [ cui_in_scope |-> cui_in_scope,
         fci_in_scope |-> fci_in_scope,
         cmmc_level_required |-> _cmmc_level(cui_in_scope, fci_in_scope),
         enclave_recommended |-> _enclave_recommended(f),
         systems_in_scope |-> _estimate_systems_in_scope(f),
         compliance_gaps |-> gaps,
         gap_count |-> Len(gaps),
         high_priority_gaps |-> HighOnly(gaps),
         nist_control_gaps |-> _nist_control_gaps(gaps),
         scope_reduction_possible |-> _scope_reduction_possible(f) ]

\* ---------------------------------------------------------------- scoring a Response Store
\* Marks an id without an entry while a store is put together.
Absent == [k |-> "absent", b |-> FALSE, n |-> 0, s |-> <<>>, l |-> <<>>]

\* The dict with the entries of `pairs` (<<id, value>>) whose value is present.
StoreOf(pairs) ==
    [id \in { pairs[i][1] : i \in { j \in 1..Len(pairs) : pairs[j][2] # Absent } } |->
        pairs[CHOOSE i \in 1..Len(pairs) : pairs[i][1] = id][2]]

\* Values found under the id of a yes/no question: the two answers, and
\* values of another type (a resumed or hand-edited file may hold any JSON).
YesNoValues == {PyBool(TRUE), PyBool(FALSE), PyNone, PyStr(s_Yes), PyInt(1)}

\* The categories df_03 selections are drawn from: two real categories and
\* the last, "I am not sure" choice of CUI_CATEGORIES.
UNSURE_CHOICE == CUI_CATEGORIES[Len(CUI_CATEGORIES)]
Df03Choices == {CUI_CATEGORIES[1], CUI_CATEGORIES[3], UNSURE_CHOICE}

RECURSIVE SelectionsOfLen(_)
SelectionsOfLen(n) ==
    IF n = 0 THEN {<<>>}
    ELSE { Append(sel, PyStr(c)) : sel \in SelectionsOfLen(n - 1), c \in Df03Choices }

\* Values found under df_03: a list of choices, or a value of another type.
Df03Values ==
    { PyList(sel) : sel \in UNION { SelectionsOfLen(n) : n \in 0..MaxSelected } }
    \cup {PyNone, PyInt(0), PyInt(5), PyBool(TRUE), PyStr(UNSURE_CHOICE), PyStr(CUI_CATEGORIES[1])}

\* ScopeScorer.__init__ has flattened the responses into self.flat.
InitScorer ==
    /\ \E df_01 \in YesNoValues \cup {Absent}, df_02 \in YesNoValues \cup {Absent},
          df_09 \in YesNoValues \cup {Absent}, df_03 \in Df03Values \cup {Absent} :
          flat = StoreOf(<< <<"df_01", df_01>>, <<"df_02", df_02>>,
                            <<"df_03", df_03>>, <<"df_09", df_09>> >>)
    /\ pc = "score"
    /\ result = PyNone
    /\ questions = <<>>
    /\ answers = EmptyDict
    /\ idx = 1
    /\ shown = 0
    /\ printed = <<>>
    /\ SessionIdle

\* calculate() with _cui_in_scope filling in the df_03 default
\* (self.flat.setdefault("df_03", []))
Calculate_sets_default ==
    /\ pc = "score"
    /\ ~calculate_raises(flat)
    /\ result' = calculate(flat)
    /\ flat' = IF "df_03" \in DOMAIN flat THEN flat ELSE Put(flat, "df_03", PyList(<<>>))
    /\ pc' = "scored"
    /\ UNCHANGED <<questions, answers, idx, shown, printed>>
    /\ UNCHANGED sessionVars

\* calculate() returns the Derived Result.
Calculate ==
    /\ pc = "score"
    /\ ~calculate_raises(flat)
    /\ result' = calculate(flat)
    /\ pc' = "scored"
    /\ UNCHANGED <<questions, answers, idx, shown, printed, flat>>
    /\ UNCHANGED sessionVars

\* calculate() ends in an uncaught TypeError: nothing is returned.
CalculateRaises ==
    /\ pc = "score"
    /\ calculate_raises(flat)
    /\ pc' = "raised"
    /\ UNCHANGED <<questions, answers, idx, shown, printed, flat, result>>
    /\ UNCHANGED sessionVars

NextScorer == Calculate \/ CalculateRaises

SpecScorer == InitScorer /\ [][NextScorer]_vars

\* ---------------------------------------------------------------- shipped catalogs
\* questions/system_inventory.py: id, qtype, choices and depends_on of each Question
SYSTEM_INVENTORY_QUESTIONS ==
    <<Question("si_01", CHOICE,
          <<<<"1","ENDASH","1","0">>,
            <<"1","1","ENDASH","5","0">>,
            <<"5","1","ENDASH","2","0","0">>,
            <<"2","0","1","ENDASH","5","0","0">>,
            <<"5","0","0","+">>>>,
          NoDep),
      Question("si_02", YES_NO,
          <<>>,
          NoDep),
      Question("si_02a", MULTI_CHOICE,
          <<<<"M","i","c","r","o","s","o","f","t"," ","3","6","5"," ","/"," ","A","z","u","r","e">>,
            <<"G","o","o","g","l","e"," ","W","o","r","k","s","p","a","c","e"," ","/"," ","G","C","P">>,
            <<"A","m","a","z","o","n"," ","W","e","b"," ","S","e","r","v","i","c","e","s"," ","(","A","W","S",")">>,
            <<"O","t","h","e","r"," ","S","a","a","S"," ","a","p","p","l","i","c","a","t","i","o","n","s">>,
            <<"O","n","-","p","r","e","m","i","s","e","s"," ","o","n","l","y">>>>,
          Dep("si_02", PyBool(TRUE))),
      Question("si_03", YES_NO,
          <<>>,
          NoDep),
      Question("si_04", YES_NO,
          <<>>,
          NoDep),
      Question("si_05", YES_NO,
          <<>>,
          NoDep),
      Question("si_06", CHOICE,
          <<<<"1","ENDASH","5">>,
            <<"6","ENDASH","2","5">>,
            <<"2","6","ENDASH","1","0","0">>,
            <<"1","0","1","ENDASH","5","0","0">>,
            <<"5","0","0","+">>>>,
          NoDep),
      Question("si_07", YES_NO,
          <<>>,
          NoDep),
      Question("si_08", YES_NO,
          <<>>,
          NoDep),
      Question("si_08a", CHOICE,
          <<<<"Y","e","s"," ","EMDASH"," ","t","h","e","y"," ","a","r","e"," ","C","M","M","C"," ","c","e","r","t","i","f","i","e","d">>,
            <<"Y","e","s"," ","EMDASH"," ","t","h","e","y"," ","h","a","v","e"," ","d","o","c","u","m","e","n","t","e","d"," ","s","e","c","u","r","i","t","y"," ","c","o","n","t","r","o","l","s"," ","(","e",".","g",".",","," ","S","O","C"," ","2",","," ","I","S","O"," ","2","7","0","0","1",")">>,
            <<"N","o"," ","EMDASH"," ","u","n","k","n","o","w","n">>,
            <<"N","o"," ","EMDASH"," ","t","h","e","y"," ","h","a","v","e"," ","n","o"," ","f","o","r","m","a","l"," ","c","e","r","t","i","f","i","c","a","t","i","o","n">>>>,
          Dep("si_08", PyBool(TRUE))),
      Question("si_09", YES_NO,
          <<>>,
          NoDep)>>

\* questions/data_flow.py: id, qtype, choices and depends_on of each Question
DATA_FLOW_QUESTIONS ==
    <<Question("df_01", YES_NO,
          <<>>,
          NoDep),
      Question("df_02", YES_NO,
          <<>>,
          Dep("df_01", PyBool(TRUE))),
      Question("df_03", MULTI_CHOICE,
          CUI_CATEGORIES,
          Dep("df_01", PyBool(TRUE))),
      Question("df_04", MULTI_CHOICE,
          <<<<"E","m","a","i","l"," ","(","e",".","g",".",","," ","a","t","t","a","c","h","m","e","n","t","s"," ","f","r","o","m"," ","c","o","n","t","r","a","c","t","i","n","g"," ","o","f","f","i","c","e","r","s",")">>,
            <<"D","o","D"," ","p","o","r","t","a","l","s"," ","/"," ","w","e","b"," ","a","p","p","l","i","c","a","t","i","o","n","s"," ","(","e",".","g",".",","," ","P","I","E","E",","," ","E","D","A",","," ","S","A","F","E",")">>,
            <<"R","e","m","o","v","a","b","l","e"," ","m","e","d","i","a"," ","(","U","S","B"," ","d","r","i","v","e","s",","," ","C","D","s",")">>,
            <<"S","h","a","r","e","d"," ","n","e","t","w","o","r","k"," ","d","r","i","v","e","s"," ","/"," ","f","i","l","e"," ","s","h","a","r","e","s"," ","w","i","t","h"," ","t","h","e"," ","g","o","v","e","r","n","m","e","n","t">>,
            <<"V","i","d","e","o"," ","c","o","n","f","e","r","e","n","c","i","n","g"," ","(","e",".","g",".",","," ","D","o","D","-","p","r","o","v","i","d","e","d"," ","m","e","e","t","i","n","g"," ","l","i","n","k","s"," ","w","i","t","h"," ","s","h","a","r","e","d"," ","d","o","c","s",")">>,
            <<"P","h","y","s","i","c","a","l"," ","d","o","c","u","m","e","n","t","s"," ","/"," ","m","a","i","l">>,
            <<"W","e"," ","g","e","n","e","r","a","t","e"," ","C","U","I"," ","o","u","r","s","e","l","v","e","s"," ","b","a","s","e","d"," ","o","n"," ","c","o","n","t","r","a","c","t"," ","w","o","r","k">>,
            <<"N","o","t"," ","s","u","r","e">>>>,
          Dep("df_01", PyBool(TRUE))),
      Question("df_05", MULTI_CHOICE,
          <<<<"E","m","p","l","o","y","e","e"," ","w","o","r","k","s","t","a","t","i","o","n","s"," ","/"," ","l","a","p","t","o","p","s"," ","(","l","o","c","a","l"," ","s","t","o","r","a","g","e",")">>,
            <<"O","n","-","p","r","e","m","i","s","e","s"," ","f","i","l","e"," ","s","e","r","v","e","r"," ","/"," ","N","A","S">>,
            <<"M","i","c","r","o","s","o","f","t"," ","S","h","a","r","e","P","o","i","n","t"," ","/"," ","O","n","e","D","r","i","v","e"," ","f","o","r"," ","B","u","s","i","n","e","s","s">>,
            <<"M","i","c","r","o","s","o","f","t"," ","T","e","a","m","s"," ","(","c","h","a","t","s",","," ","f","i","l","e","s",")">>,
            <<"G","o","o","g","l","e"," ","D","r","i","v","e">>,
            <<"O","t","h","e","r"," ","c","l","o","u","d"," ","s","t","o","r","a","g","e"," ","(","B","o","x",","," ","D","r","o","p","b","o","x",","," ","e","t","c",".",")">>,
            <<"E","m","a","i","l"," ","s","e","r","v","e","r"," ","/"," ","c","l","o","u","d"," ","e","m","a","i","l"," ","(","E","x","c","h","a","n","g","e",","," ","G","m","a","i","l",")">>,
            <<"D","a","t","a","b","a","s","e"," ","(","S","Q","L",","," ","O","r","a","c","l","e",","," ","e","t","c",".",")">>,
            <<"R","e","m","o","v","a","b","l","e"," ","m","e","d","i","a"," ","(","U","S","B",","," ","e","x","t","e","r","n","a","l"," ","d","r","i","v","e","s",")">>,
            <<"M","o","b","i","l","e"," ","d","e","v","i","c","e","s"," ","(","p","h","o","n","e","s",","," ","t","a","b","l","e","t","s",")">>,
            <<"W","e"," ","d","o"," ","n","o","t"," ","s","t","o","r","e"," ","C","U","I"," ","EMDASH"," ","p","r","o","c","e","s","s"," ","o","n","l","y">>>>,
          Dep("df_01", PyBool(TRUE))),
      Question("df_06", CHOICE,
          <<<<"Y","e","s"," ","EMDASH"," ","a","l","l"," ","C","U","I"," ","s","t","o","r","a","g","e"," ","l","o","c","a","t","i","o","n","s"," ","u","s","e"," ","e","n","c","r","y","p","t","i","o","n">>,
            <<"Y","e","s"," ","EMDASH"," ","s","o","m","e"," ","s","t","o","r","a","g","e"," ","l","o","c","a","t","i","o","n","s"," ","u","s","e"," ","e","n","c","r","y","p","t","i","o","n">>,
            <<"N","o"," ","EMDASH"," ","C","U","I"," ","i","s"," ","s","t","o","r","e","d"," ","w","i","t","h","o","u","t"," ","e","n","c","r","y","p","t","i","o","n">>,
            <<"I"," ","a","m"," ","n","o","t"," ","s","u","r","e">>>>,
          Dep("df_01", PyBool(TRUE))),
      Question("df_07", CHOICE,
          <<<<"Y","e","s"," ","EMDASH"," ","T","L","S","/","H","T","T","P","S","/","S","/","M","I","M","E"," ","u","s","e","d"," ","c","o","n","s","i","s","t","e","n","t","l","y">>,
            <<"Y","e","s"," ","EMDASH"," ","s","o","m","e"," ","t","r","a","n","s","m","i","s","s","i","o","n","s"," ","a","r","e"," ","e","n","c","r","y","p","t","e","d">>,
            <<"N","o"," ","EMDASH"," ","C","U","I"," ","i","s"," ","s","e","n","t"," ","i","n"," ","p","l","a","i","n","t","e","x","t">>,
            <<"I"," ","a","m"," ","n","o","t"," ","s","u","r","e">>>>,
          Dep("df_01", PyBool(TRUE))),
      Question("df_08", YES_NO,
          <<>>,
          Dep("df_01", PyBool(TRUE))),
      Question("df_08a", CHOICE,
          <<<<"Y","e","s"," ","EMDASH"," ","C","M","M","C"," ","c","e","r","t","i","f","i","e","d">>,
            <<"Y","e","s"," ","EMDASH"," ","d","o","c","u","m","e","n","t","e","d"," ","c","o","n","t","r","o","l","s"," ","(","S","O","C"," ","2",","," ","I","S","O"," ","2","7","0","0","1",","," ","e","t","c",".",")">>,
            <<"N","o"," ","EMDASH"," ","n","o"," ","k","n","o","w","n"," ","c","e","r","t","i","f","i","c","a","t","i","o","n">>,
            <<"I"," ","a","m"," ","n","o","t"," ","s","u","r","e">>>>,
          Dep("df_08", PyBool(TRUE))),
      Question("df_09", YES_NO,
          <<>>,
          NoDep)>>

\* questions/boundary.py: id, qtype, choices and depends_on of each Question
BOUNDARY_QUESTIONS ==
    <<Question("bd_01", YES_NO,
          <<>>,
          NoDep),
      Question("bd_01a", YES_NO,
          <<>>,
          Dep("bd_01", PyBool(FALSE))),
      Question("bd_02", CHOICE,
          <<<<"Y","e","s"," ","EMDASH"," ","p","h","y","s","i","c","a","l","l","y"," ","s","e","p","a","r","a","t","e"," ","(","d","i","f","f","e","r","e","n","t"," ","h","a","r","d","w","a","r","e",","," ","n","o"," ","n","e","t","w","o","r","k"," ","c","o","n","n","e","c","t","i","o","n",")">>,
            <<"Y","e","s"," ","EMDASH"," ","l","o","g","i","c","a","l","l","y"," ","s","e","p","a","r","a","t","e","d"," ","(","s","e","p","a","r","a","t","e"," ","V","L","A","N"," ","/"," ","n","e","t","w","o","r","k"," ","s","e","g","m","e","n","t",")">>,
            <<"P","a","r","t","i","a","l","l","y"," ","EMDASH"," ","s","o","m","e"," ","s","e","p","a","r","a","t","i","o","n"," ","e","x","i","s","t","s">>,
            <<"N","o"," ","EMDASH"," ","a","l","l"," ","s","y","s","t","e","m","s"," ","s","h","a","r","e"," ","t","h","e"," ","s","a","m","e"," ","n","e","t","w","o","r","k">>,
            <<"N","o","t"," ","a","p","p","l","i","c","a","b","l","e"," ","EMDASH"," ","e","n","t","i","r","e"," ","e","n","v","i","r","o","n","m","e","n","t"," ","h","a","n","d","l","e","s"," ","C","U","I">>>>,
          NoDep),
      Question("bd_03", YES_NO,
          <<>>,
          NoDep),
      Question("bd_03a", CHOICE,
          <<<<"D","e","d","i","c","a","t","e","d"," ","p","h","y","s","i","c","a","l"," ","m","a","c","h","i","n","e","s"," ","(","a","i","r","-","g","a","p","p","e","d",")">>,
            <<"V","i","r","t","u","a","l"," ","m","a","c","h","i","n","e","s"," ","(","V","M","w","a","r","e",","," ","H","y","p","e","r","-","V",","," ","V","i","r","t","u","a","l","B","o","x",")">>,
            <<"D","o","c","k","e","r"," ","/"," ","c","o","n","t","a","i","n","e","r","i","z","e","d"," ","e","n","v","i","r","o","n","m","e","n","t">>,
            <<"C","l","o","u","d","-","h","o","s","t","e","d"," ","e","n","c","l","a","v","e"," ","(","e",".","g",".",","," ","M","i","c","r","o","s","o","f","t"," ","G","C","C"," ","H","i","g","h",","," ","A","W","S"," ","G","o","v","C","l","o","u","d",")">>,
            <<"C","o","m","m","e","r","c","i","a","l"," ","m","a","n","a","g","e","d"," ","e","n","c","l","a","v","e"," ","s","e","r","v","i","c","e">>,
            <<"O","t","h","e","r">>>>,
          Dep("bd_03", PyBool(TRUE))),
      Question("bd_04", YES_NO,
          <<>>,
          Dep("bd_03", PyBool(FALSE))),
      Question("bd_05", YES_NO,
          <<>>,
          NoDep),
      Question("bd_06", YES_NO,
          <<>>,
          NoDep),
      Question("bd_06a", MULTI_CHOICE,
          <<<<"A","c","t","i","v","e"," ","D","i","r","e","c","t","o","r","y"," ","/"," ","L","D","A","P"," ","(","i","d","e","n","t","i","t","y","/","a","u","t","h","e","n","t","i","c","a","t","i","o","n",")">>,
            <<"D","N","S"," ","s","e","r","v","e","r","s">>,
            <<"D","H","C","P"," ","s","e","r","v","e","r","s">>,
            <<"F","i","l","e"," ","s","e","r","v","e","r","s"," ","/"," ","N","A","S"," ","(","s","h","a","r","e","d"," ","d","r","i","v","e","s",")">>,
            <<"E","m","a","i","l"," ","s","e","r","v","e","r">>,
            <<"B","a","c","k","u","p"," ","/"," ","D","R"," ","s","y","s","t","e","m","s">>,
            <<"M","o","n","i","t","o","r","i","n","g"," ","/"," ","S","I","E","M">>,
            <<"I","T"," ","m","a","n","a","g","e","m","e","n","t"," ","t","o","o","l","s"," ","(","R","M","M",","," ","p","a","t","c","h"," ","m","a","n","a","g","e","m","e","n","t",")">>,
            <<"N","o","n","e"," ","EMDASH"," ","s","h","a","r","e","d"," ","s","e","r","v","i","c","e","s"," ","a","r","e"," ","s","e","p","a","r","a","t","e","d">>>>,
          Dep("bd_06", PyBool(TRUE))),
      Question("bd_07", YES_NO,
          <<>>,
          NoDep),
      Question("bd_08", YES_NO,
          <<>>,
          NoDep),
      Question("bd_08a", TEXT,
          <<>>,
          Dep("bd_08", PyBool(TRUE)))>>

\* questions/access_control.py: id, qtype, choices and depends_on of each Question
ACCESS_CONTROL_QUESTIONS ==
    <<Question("ac_01", YES_NO,
          <<>>,
          NoDep),
      Question("ac_02", CHOICE,
          <<<<"Y","e","s"," ","EMDASH"," ","M","F","A"," ","e","n","f","o","r","c","e","d"," ","f","o","r"," ","a","l","l"," ","u","s","e","r","s"," ","(","l","o","c","a","l"," ","a","n","d"," ","r","e","m","o","t","e",")">>,
            <<"Y","e","s"," ","EMDASH"," ","M","F","A"," ","e","n","f","o","r","c","e","d"," ","f","o","r"," ","r","e","m","o","t","e"," ","a","c","c","e","s","s"," ","o","n","l","y">>,
            <<"Y","e","s"," ","EMDASH"," ","M","F","A"," ","e","n","f","o","r","c","e","d"," ","f","o","r"," ","p","r","i","v","i","l","e","g","e","d","/","a","d","m","i","n"," ","a","c","c","o","u","n","t","s"," ","o","n","l","y">>,
            <<"N","o"," ","EMDASH"," ","p","a","s","s","w","o","r","d","-","o","n","l","y"," ","a","u","t","h","e","n","t","i","c","a","t","i","o","n"," ","i","s"," ","u","s","e","d">>,
            <<"P","a","r","t","i","a","l","l","y"," ","i","m","p","l","e","m","e","n","t","e","d">>>>,
          NoDep),
      Question("ac_03", YES_NO,
          <<>>,
          NoDep),
      Question("ac_04", CHOICE,
          <<<<"Y","e","s"," ","EMDASH"," ","m","e","e","t","s"," ","N","I","S","T"," ","8","0","0","-","6","3","B"," ","r","e","q","u","i","r","e","m","e","n","t","s"," ","(","m","i","n"," ","8"," ","c","h","a","r","s",","," ","c","o","m","p","l","e","x","i","t","y",")">>,
            <<"Y","e","s"," ","EMDASH"," ","b","u","t"," ","b","e","l","o","w"," ","N","I","S","T"," ","r","e","c","o","m","m","e","n","d","a","t","i","o","n","s">>,
            <<"N","o"," ","f","o","r","m","a","l"," ","p","o","l","i","c","y"," ","EMDASH"," ","u","s","e","r","s"," ","c","h","o","o","s","e"," ","t","h","e","i","r"," ","o","w","n"," ","p","a","s","s","w","o","r","d","s">>,
            <<"N","o","t"," ","s","u","r","e">>>>,
          NoDep),
      Question("ac_05", CHOICE,
          <<<<"Y","e","s"," ","EMDASH"," ","V","P","N"," ","w","i","t","h"," ","M","F","A"," ","+"," ","f","u","l","l"," ","l","o","g","g","i","n","g">>,
            <<"Y","e","s"," ","EMDASH"," ","V","P","N"," ","b","u","t"," ","n","o"," ","M","F","A">>,
            <<"Y","e","s"," ","EMDASH"," ","d","i","r","e","c","t"," ","R","D","P","/","S","S","H"," ","(","n","o"," ","V","P","N",")">>,
            <<"N","o"," ","f","o","r","m","a","l"," ","r","e","m","o","t","e"," ","a","c","c","e","s","s"," ","c","o","n","t","r","o","l","s">>,
            <<"N","o"," ","r","e","m","o","t","e"," ","a","c","c","e","s","s"," ","a","l","l","o","w","e","d">>>>,
          NoDep),
      Question("ac_06", CHOICE,
          <<<<"Y","e","s"," ","EMDASH"," ","f","o","r","m","a","l"," ","o","f","f","b","o","a","r","d","i","n","g"," ","p","r","o","c","e","s","s"," ","w","i","t","h"," ","i","m","m","e","d","i","a","t","e"," ","a","c","c","o","u","n","t"," ","t","e","r","m","i","n","a","t","i","o","n">>,
            <<"Y","e","s"," ","EMDASH"," ","a","c","c","o","u","n","t","s"," ","r","e","m","o","v","e","d"," ","w","i","t","h","i","n"," ","1","ENDASH","7"," ","d","a","y","s">>,
            <<"N","o"," ","f","o","r","m","a","l"," ","p","r","o","c","e","s","s"," ","EMDASH"," ","a","c","c","o","u","n","t","s"," ","m","a","y"," ","r","e","m","a","i","n"," ","a","c","t","i","v","e">>,
            <<"N","o","t"," ","s","u","r","e">>>>,
          NoDep),
      Question("ac_07", CHOICE,
          <<<<"Y","e","s"," ","EMDASH"," ","c","o","m","p","r","e","h","e","n","s","i","v","e"," ","l","o","g","g","i","n","g"," ","w","i","t","h"," ","a","l","e","r","t","i","n","g"," ","(","S","I","E","M",")">>,
            <<"Y","e","s"," ","EMDASH"," ","b","a","s","i","c"," ","l","o","g","g","i","n","g"," ","(","e","v","e","n","t"," ","l","o","g","s",","," ","a","u","d","i","t","d",")">>,
            <<"P","a","r","t","i","a","l"," ","EMDASH"," ","s","o","m","e"," ","s","y","s","t","e","m","s"," ","a","r","e"," ","l","o","g","g","e","d">>,
            <<"N","o"," ","l","o","g","g","i","n","g"," ","i","n"," ","p","l","a","c","e">>>>,
          NoDep),
      Question("ac_08", CHOICE,
          <<<<"Y","e","s"," ","EMDASH"," ","U","S","B"," ","p","o","r","t","s"," ","a","r","e"," ","d","i","s","a","b","l","e","d"," ","o","r"," ","b","l","o","c","k","e","d"," ","b","y"," ","p","o","l","i","c","y"," ","+"," ","t","e","c","h","n","i","c","a","l"," ","c","o","n","t","r","o","l">>,
            <<"Y","e","s"," ","EMDASH"," ","p","o","l","i","c","y"," ","e","x","i","s","t","s"," ","b","u","t"," ","n","o","t"," ","t","e","c","h","n","i","c","a","l","l","y"," ","e","n","f","o","r","c","e","d">>,
            <<"N","o"," ","EMDASH"," ","u","n","r","e","s","t","r","i","c","t","e","d"," ","U","S","B"," ","u","s","a","g","e">>,
            <<"N","o","t"," ","s","u","r","e">>>>,
          NoDep),
      Question("ac_09", CHOICE,
          <<<<"Y","e","s"," ","EMDASH"," ","a","n","n","u","a","l"," ","f","o","r","m","a","l"," ","t","r","a","i","n","i","n","g"," ","w","i","t","h"," ","d","o","c","u","m","e","n","t","a","t","i","o","n">>,
            <<"Y","e","s"," ","EMDASH"," ","i","n","f","o","r","m","a","l"," ","t","r","a","i","n","i","n","g"," ","(","a","d"," ","h","o","c",")">>,
            <<"N","o"," ","f","o","r","m","a","l"," ","t","r","a","i","n","i","n","g"," ","p","r","o","g","r","a","m">>>>,
          NoDep),
      Question("ac_10", YES_NO,
          <<>>,
          NoDep)>>

\* The shipped questions in the order of ScopingAssessment.MODULES.
ShippedQuestions ==
    SYSTEM_INVENTORY_QUESTIONS \o DATA_FLOW_QUESTIONS \o BOUNDARY_QUESTIONS
        \o ACCESS_CONTROL_QUESTIONS

\* The shipped question with the given id.
QuestionOf(id) ==
    ShippedQuestions[CHOOSE i \in 1..Len(ShippedQuestions) : ShippedQuestions[i].id = id]

\* The n-th choice label of a shipped question, as the answer _ask_choice stores.
ChoiceOf(id, n) == PyStr(QuestionOf(id).choices[n])

\* The answers _ask_choice can store for a shipped CHOICE question.
ChoiceAnswers(id) == { ChoiceOf(id, n) : n \in 1..Len(QuestionOf(id).choices) }

\* ---------------------------------------------------------------- re-scoring a growing Response Store
\* The ids read by the rules of _identify_gaps.
GapKeys == {"ac_02", "ac_05", "df_06", "df_07", "bd_02", "bd_06", "bd_06a", "bd_07",
            "bd_08", "ac_07", "ac_03", "ac_08", "si_04", "ac_09", "df_08a"}

\* Values found under the id of a shipped question: the answers its collector
\* stores, and answers of another kind (null, a boolean, a number, a string).
AnswerValues(id) ==
    LET q == QuestionOf(id)
        n == Len(q.choices)
    IN CASE q.qtype = YES_NO -> {PyBool(TRUE), PyBool(FALSE), PyNone, PyInt(0)}
         [] q.qtype = CHOICE -> ChoiceAnswers(id) \cup {PyNone, PyBool(FALSE)}
         [] q.qtype = MULTI_CHOICE ->
               { PyList(<<ChoiceOf(id, 1)>>), PyList(<<ChoiceOf(id, 1), ChoiceOf(id, 2)>>),
                 PyList(<<ChoiceOf(id, n)>>), ChoiceOf(id, 1), PyNone }
         [] OTHER -> {PyNone}

\* ScopeScorer is constructed on an empty Response Store.
InitGaps ==
    /\ flat = EmptyDict
    /\ pc = "score"
    /\ result = PyNone
    /\ questions = <<>>
    /\ answers = EmptyDict
    /\ idx = 1
    /\ shown = 0
    /\ printed = <<>>
    /\ SessionIdle

\* calculate() is called a second time on the same ScopeScorer.
CalculateAgain ==
    /\ pc = "scored"
    /\ result' = calculate(flat)
    /\ pc' = "rescored"
    /\ UNCHANGED <<questions, answers, idx, shown, printed, flat>>
    /\ UNCHANGED sessionVars

\* A ScopeScorer is constructed on the store extended by an answer for an id
\* that had no entry; `result` still holds the result of the store before.
AddAnswer ==
    /\ pc \in {"scored", "rescored"}
    /\ Cardinality(DOMAIN flat) < MaxAnswers
    /\ \E id \in GapKeys \ DOMAIN flat :
          \E v \in AnswerValues(id) : flat' = Put(flat, id, v)
    /\ pc' = "score"
    /\ UNCHANGED <<questions, answers, idx, shown, printed, result>>
    /\ UNCHANGED sessionVars

NextGaps == Calculate \/ CalculateAgain \/ AddAnswer

SpecGaps == InitGaps /\ [][NextGaps]_vars


\* ---------------------------------------------------------------- scoring the boundary answers
\* Values found under the id of a yes/no question of the boundary module, or
\* the marker of an id without an entry.
BoundaryYesNo == {PyBool(TRUE), PyBool(FALSE), PyNone, PyInt(0), Absent}

\* ScopeScorer.__init__ on a store of classification, boundary and device
\* count answers.
InitBoundary ==
    /\ \E df_01 \in {PyBool(TRUE), PyBool(FALSE), Absent}, df_02 \in {PyBool(TRUE), Absent},
          bd_01 \in BoundaryYesNo, bd_01a \in {PyBool(TRUE), PyBool(FALSE), Absent},
          bd_02 \in ChoiceAnswers("bd_02") \cup {PyNone, Absent},
          bd_03 \in BoundaryYesNo, bd_04 \in BoundaryYesNo,
          si_01 \in ChoiceAnswers("si_01") \cup {PyInt(5), Absent} :
          flat = StoreOf(<< <<"df_01", df_01>>, <<"df_02", df_02>>, <<"bd_01", bd_01>>,
                            <<"bd_01a", bd_01a>>, <<"bd_02", bd_02>>, <<"bd_03", bd_03>>,
                            <<"bd_04", bd_04>>, <<"si_01", si_01>> >>)
    /\ pc = "score"
    /\ result = PyNone
    /\ questions = <<>>
    /\ answers = EmptyDict
    /\ idx = 1
    /\ shown = 0
    /\ printed = <<>>
    /\ SessionIdle

NextBoundary == Calculate

SpecBoundary == InitBoundary /\ [][NextBoundary]_vars

\* ---------------------------------------------------------------- ScopingAssessment
\* MODULES with a boundary module whose list lacks its first question, so
\* that bd_01a depends on a question its module does not hold.
MODULES_boundary_tail ==
    << [key |-> "system_inventory", questions |-> SYSTEM_INVENTORY_QUESTIONS],
       [key |-> "data_flow",        questions |-> DATA_FLOW_QUESTIONS],
       [key |-> "boundary",         questions |-> Tail(BOUNDARY_QUESTIONS)],
       [key |-> "access_control",   questions |-> ACCESS_CONTROL_QUESTIONS] >>

\* ScopingAssessment.MODULES: the key and the question list of each module.
MODULES ==
    << [key |-> "system_inventory", questions |-> SYSTEM_INVENTORY_QUESTIONS],
       [key |-> "data_flow",        questions |-> DATA_FLOW_QUESTIONS],
       [key |-> "boundary",         questions |-> BOUNDARY_QUESTIONS],
       [key |-> "access_control",   questions |-> ACCESS_CONTROL_QUESTIONS] >>

\* The questions the engine of module m is given.
ModuleQuestions(m) ==
    SubSeq(MODULES[m].questions, 1,
           IF Len(MODULES[m].questions) < MaxModuleQuestions
           THEN Len(MODULES[m].questions) ELSE MaxModuleQuestions)

\* a scorer that keeps the answers of the first module only
Flatten_first_module(r) ==
    IF "system_inventory" \in DOMAIN r THEN r["system_inventory"] ELSE EmptyDict

\* ScopeScorer.__init__: self.flat.update(module_data) for each module dict
\* (an id held by several dicts keeps the value of the last one).
Flatten(r) ==
    [id \in UNION { DOMAIN r[k] : k \in DOMAIN r } |->
        LET holders == { m \in 1..Len(MODULES) :
                            MODULES[m].key \in DOMAIN r /\ id \in DOMAIN r[MODULES[m].key] }
            last == CHOOSE m \in holders : \A n \in holders : n <= m
        IN r[MODULES[last].key][id]]

\* _autosave with the "score" key of _finalize in every file it writes.
Checkpoint_with_score(r) ==
    [exists |-> TRUE, parses |-> TRUE, metadata |-> TRUE, has_responses |-> TRUE,
     responses |-> r, has_score |-> TRUE, score |-> PyNone]

\* The dict _autosave dumps into the file at output_path.
Checkpoint(r) ==
    [exists |-> TRUE, parses |-> TRUE, metadata |-> TRUE, has_responses |-> TRUE,
     responses |-> r, has_score |-> FALSE, score |-> PyNone]

\* The dict _finalize dumps into the file at output_path.
FinalFile(r, score) ==
    [exists |-> TRUE, parses |-> TRUE, metadata |-> TRUE, has_responses |-> TRUE,
     responses |-> r, has_score |-> TRUE, score |-> score]

\* Files handed to --resume that hold one module answered in part: only the
\* first question of the module has an entry.
PartialFiles ==
    { Checkpoint("system_inventory" :> ("si_01" :> ChoiceOf("si_01", 1))),
      Checkpoint("data_flow" :> ("df_01" :> PyBool(TRUE))),
      Checkpoint("boundary" :> ("bd_01" :> PyBool(FALSE))),
      Checkpoint("access_control" :> ("ac_01" :> PyBool(TRUE))) }

\* Files handed to --resume that are not checkpoints of the tool: text that
\* is not JSON (or JSON that is not an object), and objects without the
\* key "metadata", without the key "responses", or without both.
UnparseableFile == [Checkpoint(EmptyDict) EXCEPT
                       !.parses = FALSE, !.metadata = FALSE, !.has_responses = FALSE]
NoMetadataFile ==
    [Checkpoint("system_inventory" :> ("si_01" :> ChoiceOf("si_01", 1)))
        EXCEPT !.metadata = FALSE]
NoResponsesFile == [Checkpoint(EmptyDict) EXCEPT !.has_responses = FALSE]
EmptyObjectFile == [Checkpoint(EmptyDict) EXCEPT
                       !.metadata = FALSE, !.has_responses = FALSE]
CorruptFiles == {UnparseableFile, NoMetadataFile, NoResponsesFile, EmptyObjectFile}

\* main(): ScopingAssessment(output_path, resume_path) is constructed; no
\* file exists at output_path; --resume names no file, one of PartialFiles
\* or one of CorruptFiles.
InitSession ==
    /\ resume \in {NoFile} \cup PartialFiles \cup CorruptFiles
    /\ responses = EmptyDict
    /\ saved = NoFile
    /\ module = 1
    /\ pc = "start"
    /\ questions = <<>>
    /\ answers = EmptyDict
    /\ idx = 1
    /\ shown = 0
    /\ printed = <<>>
    /\ flat = EmptyDict
    /\ result = PyNone

\* _load_resume: self.responses = data.get("responses", {}); a missing
\* "metadata" key leaves the metadata of __init__ in place.
_load_resume(file) ==
    IF file.has_responses THEN file.responses ELSE EmptyDict

\* run(): the banner, then _load_resume() when resume_path is given; the
\* run then waits at input() and at the prompts of _collect_metadata.
LoadResume ==
    /\ pc = "start"
    /\ resume.exists => resume.parses
    /\ responses' = IF resume.exists THEN _load_resume(resume) ELSE responses
    /\ pc' = "intro"
    /\ UNCHANGED <<questions, answers, idx, shown, printed, flat, result,
                   saved, module, resume>>

\* json.load raises JSONDecodeError (data.get raises AttributeError when
\* the JSON is not an object): nothing in run() or main() catches it and
\* the process ends with the traceback.
LoadResumeRaises ==
    /\ pc = "start"
    /\ resume.exists
    /\ ~resume.parses
    /\ pc' = "crashed"
    /\ UNCHANGED <<questions, answers, idx, shown, printed, flat, result,
                   responses, saved, module, resume>>

\* ENTER is pressed and _collect_metadata returns: the module loop starts.
CollectMetadata ==
    /\ pc = "intro"
    /\ module' = 1
    /\ pc' = "modules"
    /\ UNCHANGED <<questions, answers, idx, shown, printed, flat, result,
                   responses, saved, resume>>

\* The loop finds module_key in self.responses: continue.
SkipModule ==
    /\ pc = "modules"
    /\ module <= Len(MODULES)
    /\ MODULES[module].key \in DOMAIN responses
    /\ module' = module + 1
    /\ UNCHANGED <<questions, answers, idx, shown, printed, pc, flat, result,
                   responses, saved, resume>>

\* the loop without its `if module_key in self.responses: continue`
StartModule_rerun ==
    /\ pc = "modules"
    /\ module <= Len(MODULES)
    /\ questions' = ModuleQuestions(module)
    /\ answers' = EmptyDict
    /\ idx' = 1
    /\ shown' = 0
    /\ printed' = <<>>
    /\ pc' = "run"
    /\ UNCHANGED <<flat, result, responses, saved, module, resume>>

\* ModuleClass().run() constructs QuestionEngine(questions) and calls run().
StartModule ==
    /\ pc = "modules"
    /\ module <= Len(MODULES)
    /\ MODULES[module].key \notin DOMAIN responses
    /\ questions' = ModuleQuestions(module)
    /\ answers' = EmptyDict
    /\ idx' = 1
    /\ shown' = 0
    /\ printed' = <<>>
    /\ pc' = "run"
    /\ UNCHANGED <<flat, result, responses, saved, module, resume>>

\* the loop without its call of _autosave()
ModuleDone_no_autosave ==
    /\ pc = "done"
    /\ module <= Len(MODULES)
    /\ responses' = Put(responses, MODULES[module].key, answers)
    /\ module' = module + 1
    /\ pc' = "modules"
    /\ UNCHANGED <<questions, answers, idx, shown, printed, flat, result, saved, resume>>

\* engine.run() has returned: self.responses[module_key] = module.run(),
\* then self._autosave().
ModuleDone ==
    /\ pc = "done"
    /\ module <= Len(MODULES)
    /\ responses' = Put(responses, MODULES[module].key, answers)
    /\ saved' = Checkpoint(responses')
    /\ module' = module + 1
    /\ pc' = "modules"
    /\ UNCHANGED <<questions, answers, idx, shown, printed, flat, result, resume>>

\* The loop is exhausted: _finalize() scores the responses and writes the
\* final file.
Finalize ==
    /\ pc = "modules"
    /\ module > Len(MODULES)
    /\ flat' = Flatten(responses)
    /\ ~calculate_raises(flat')
    /\ result' = calculate(flat')
    /\ saved' = FinalFile(responses, result')
    /\ pc' = "finished"
    /\ UNCHANGED <<questions, answers, idx, shown, printed, responses, module, resume>>

\* The run is blocked in input(): before the modules, or at the prompt of
\* the question the engine is presenting.
AtPrompt ==
    \/ pc = "intro"
    \/ /\ pc = "run"
       /\ idx <= Len(questions)
       /\ DependencyMet(questions[idx], answers)

\* Ctrl-C at a prompt: KeyboardInterrupt unwinds run(), main() prints its
\* message and exits.
Abort ==
    /\ AtPrompt
    /\ pc' = "aborted"
    /\ UNCHANGED <<questions, answers, idx, shown, printed, flat, result,
                   responses, saved, module, resume>>

\* The tool is started again with --resume and --output both naming the
\* file the aborted run wrote.
Restart ==
    /\ pc = "aborted"
    /\ saved.exists
    /\ resume' = saved
    /\ responses' = EmptyDict
    /\ module' = 1
    /\ questions' = <<>>
    /\ answers' = EmptyDict
    /\ idx' = 1
    /\ shown' = 0
    /\ printed' = <<>>
    /\ pc' = "start"
    /\ UNCHANGED <<flat, result, saved>>

NextSession ==
    \/ LoadResume \/ LoadResumeRaises \/ CollectMetadata \/ SkipModule \/ StartModule
    \/ RunSkip \/ RunAsk \/ RunReturn
    \/ ModuleDone \/ Finalize \/ Abort \/ Restart

SpecSession == InitSession /\ [][NextSession]_vars

\* ---------------------------------------------------------------- claims on QuestionEngine.run
\* The loop is at question idx and the step taken is one iteration on it.
AtQuestion == pc = "run" /\ idx <= Len(questions)
IterationStep == AtQuestion /\ idx' = idx + 1
PresentedNow == Len(printed') = Len(printed) + 1
SkippedNow == printed' = printed

\* Indices of the questions presented so far.
PresentedSet == { printed[j].q : j \in 1..Len(printed) }

\* The comparison the claims state: boolean-normalized when expected is a
\* boolean, equality otherwise.
EqualsExpected(stored, expected) ==
    IF IsBool(expected) THEN PyEq(_to_bool(stored), expected)
    ELSE PyEq(stored, expected)

C1_Step ==
    (IterationStep /\ questions[idx].depends_on.has) =>
        LET q == questions[idx]
            d == q.depends_on.id
        IN /\ PresentedNow <=>
                (d \in DOMAIN answers /\ EqualsExpected(answers[d], q.depends_on.expected))
           /\ SkippedNow => q.id \notin DOMAIN answers'

C1_Returned ==
    pc = "done" =>
        \A i \in 1..Len(questions) :
            (questions[i].depends_on.has /\ i \notin PresentedSet)
                => questions[i].id \notin DOMAIN answers

\* C1: a question with dependency (d, expected) is presented iff, when it is
\* reached, d has an entry in the answer store and that entry equals expected
\* (boolean-normalized when expected is boolean, equality otherwise); a
\* question not presented has no entry in the returned answer store.
C1_PresentedIffDependencyEntryEquals == [][C1_Step]_vars /\ []C1_Returned

C2_Inv ==
    /\ \A i \in 1..(idx - 1) :
          ~questions[i].depends_on.has =>
              Cardinality({ j \in 1..Len(printed) : printed[j].q = i }) = 1
    /\ \A j, k \in 1..Len(printed) : j < k => printed[j].q < printed[k].q
    /\ \A j \in 1..Len(printed) : printed[j].q < idx

\* C2: every question without a dependency is presented exactly once,
\* presented questions are presented in catalog order, and the loop only
\* moves forward: no question is revisited once answered or skipped.
C2_NoDepOnceInOrderNoRevisit ==
    []C2_Inv /\ [][idx' = idx + 1 \/ idx' = idx]_vars

\* C2 witness: a run has returned after presenting two questions.
C2_Witness ==
    /\ pc = "done"
    /\ Len(printed) = 2
    /\ \E i \in 1..Len(questions) : ~questions[i].depends_on.has

\* The case C3 is about: the question reached has a boolean expected value
\* and the stored answer of its dependency is a str.
C3_Case ==
    /\ IterationStep
    /\ questions[idx].depends_on.has
    /\ IsBool(questions[idx].depends_on.expected)
    /\ questions[idx].depends_on.id \in DOMAIN answers
    /\ IsStr(answers[questions[idx].depends_on.id])

C4_NumbersWithoutGaps ==
    /\ \A j \in 1..Len(printed) : printed[j].num = j
    /\ shown = Len(printed)
    /\ Cardinality(DOMAIN answers) = Len(printed)

\* C4 witness: a run has returned in which a question was presented after a
\* skipped one.
C4_Witness ==
    /\ pc = "done"
    /\ \E j \in 1..Len(printed) : printed[j].q > j

\* ---------------------------------------------------------------- claims on ScopeScorer.calculate
\* df_03 is absent or a list of choices (the type of a multi-choice answer).
Df03WellTyped == "df_03" \notin DOMAIN flat \/ IsList(flat["df_03"])

\* The df_03 selection is non-empty and does not consist solely of the
\* unsure choice.
CategoriesIdentified ==
    /\ "df_03" \in DOMAIN flat
    /\ IsList(flat["df_03"])
    /\ Len(flat["df_03"].l) > 0
    /\ \E i \in 1..Len(flat["df_03"].l) : flat["df_03"].l[i] # PyStr(UNSURE_CHOICE)

\* C5: cui_in_scope is true iff df_01 is true and (df_02 is true or the
\* df_03 selection is non-empty and does not consist solely of the unsure
\* choice).
C5_CuiInScopeRule ==
    (pc = "scored" /\ Df03WellTyped) =>
        (result.cui_in_scope <=>
            (IsTrue(Get(flat, "df_01", PyNone))
               /\ (IsTrue(Get(flat, "df_02", PyNone)) \/ CategoriesIdentified)))

\* C6: with df_01 true, df_02 false and df_03 the selection of the unsure
\* choice alone, cui_in_scope is false and the level required is Level 1.
C6_UnsureOnlyIsLevel1 ==
    ( /\ pc = "scored"
      /\ IsTrue(Get(flat, "df_01", PyNone))
      /\ IsFalse(Get(flat, "df_02", PyNone))
      /\ Get(flat, "df_03", PyNone) = PyList(<<PyStr(UNSURE_CHOICE)>>) )
    => (~result.cui_in_scope /\ result.cmmc_level_required = LEVEL_1)

\* C7: the level is Level 2 whenever cui_in_scope is true; otherwise Level 1
\* iff fci_in_scope is true, where fci_in_scope is true iff df_01 is true or
\* df_09 is true; otherwise the Not Required sentinel.
C7_LevelByStrictPriority ==
    pc = "scored" =>
        /\ result.fci_in_scope <=>
              (IsTrue(Get(flat, "df_01", PyNone)) \/ IsTrue(Get(flat, "df_09", PyNone)))
        /\ result.cui_in_scope => result.cmmc_level_required = LEVEL_2
        /\ (~result.cui_in_scope /\ result.fci_in_scope)
              => result.cmmc_level_required = LEVEL_1
        /\ (~result.cui_in_scope /\ ~result.fci_in_scope)
              => result.cmmc_level_required = NOT_REQUIRED

\* C7 witness: a store scored Level 2 with cui_in_scope and fci_in_scope both
\* true, df_09 answered false.
C7_Witness ==
    /\ pc = "scored"
    /\ result.cui_in_scope
    /\ result.fci_in_scope
    /\ IsFalse(Get(flat, "df_09", PyNone))
    /\ result.cmmc_level_required = LEVEL_2

\* C8: cui_in_scope implies fci_in_scope; df_01 = true, df_02 = true with
\* all else absent gives Level 2 with fci_in_scope true.
C8_PrimaryImpliesBaseline ==
    pc = "scored" =>
        /\ result.cui_in_scope => result.fci_in_scope
        /\ ( /\ DOMAIN flat = {"df_01", "df_02"}
             /\ IsTrue(flat["df_01"])
             /\ IsTrue(flat["df_02"]) )
            => (result.cmmc_level_required = LEVEL_2 /\ result.fci_in_scope)

\* C8 witness: the store {df_01: true, df_02: true} has been scored.
C8_Witness ==
    /\ pc = "scored"
    /\ DOMAIN flat = {"df_01", "df_02"}
    /\ IsTrue(flat["df_01"])
    /\ IsTrue(flat["df_02"])
    /\ result.cui_in_scope

ResultKeys ==
    {"cui_in_scope", "fci_in_scope", "cmmc_level_required", "enclave_recommended",
     "systems_in_scope", "compliance_gaps", "gap_count", "high_priority_gaps",
     "nist_control_gaps", "scope_reduction_possible"}

\* C9: scoring the empty Response Store returns a complete result: every
\* boolean flag false, the Not Required sentinel, no gaps and gap_count 0.
C9_EmptyStoreResult ==
    DOMAIN flat = {} =>
        /\ pc # "raised"
        /\ pc = "scored" =>
              /\ DOMAIN result = ResultKeys
              /\ ~result.cui_in_scope
              /\ ~result.fci_in_scope
              /\ ~result.enclave_recommended
              /\ ~result.scope_reduction_possible
              /\ result.cmmc_level_required = NOT_REQUIRED
              /\ result.compliance_gaps = <<>>
              /\ result.gap_count = 0

\* C9 witness: the empty store has been scored.
C9_Witness == pc = "scored" /\ DOMAIN flat = {}

\* C10: calculate never raises, whatever the store holds.
C10_CalculateNeverRaises == pc # "raised"

\* ---------------------------------------------------------------- claims on the gap rules
\* calculate() has returned for the store in `flat`.
Scored == pc \in {"scored", "rescored"}

\* The ids each gap rule reads, with the title of the record it appends.
GapRuleReads ==
    { <<"ac_02", "Multi-Factor Authentication Not Fully Implemented">>,
      <<"ac_05", "Remote Access Lacks MFA or VPN Protection">>,
      <<"df_06", "CUI Not Encrypted at Rest">>,
      <<"df_07", "CUI Not Encrypted in Transit">>,
      <<"bd_02", "No Network Segmentation for CUI Systems">>,
      <<"bd_06", "Shared Services Span CUI and Non-CUI Environments">>,
      <<"bd_06a", "Shared Services Span CUI and Non-CUI Environments">>,
      <<"bd_07", "No System Security Plan (SSP)">>,
      <<"bd_08", "SPRS Score Not Submitted">>,
      <<"ac_07", "No Audit Logging on CUI Systems">>,
      <<"ac_03", "No Separation of Privileged and Standard Accounts">>,
      <<"ac_08", "Removable Media Not Controlled">>,
      <<"si_04", "Personal Devices (BYOD) Used for Work Activities">>,
      <<"ac_09", "No Formal Cybersecurity Awareness Training Program">>,
      <<"df_08a", "Subcontractors Handling CUI Lack CMMC Certification">> }

\* The value stored under id has the type of the question's kind.
KindMatches(id, v) ==
    CASE QuestionOf(id).qtype = YES_NO -> IsBool(v)
      [] QuestionOf(id).qtype = CHOICE -> IsStr(v)
      [] QuestionOf(id).qtype = MULTI_CHOICE -> IsList(v)
      [] QuestionOf(id).qtype = TEXT -> IsStr(v) \/ IsNone(v)
      [] OTHER -> v.k = "int"

HasGapTitled(title) ==
    \E i \in 1..Len(result.compliance_gaps) : result.compliance_gaps[i].title = title

\* C11: a gap rule whose answer is missing, or present with a value whose
\* type does not match the question's kind, contributes no Gap Record.
C11_MissingOrMistypedNotTriggered ==
    Scored =>
        \A r \in GapRuleReads :
            (r[1] \notin DOMAIN flat \/ ~KindMatches(r[1], flat[r[1]]))
                => ~HasGapTitled(r[2])

\* C12: when a store extended by an answer for an id that had no entry is
\* scored, every Gap Record of the store before is among the records of the
\* extended store.
C12_AddingKeepsGaps ==
    [][ (pc = "score" /\ DOMAIN flat # {}) =>
            /\ pc' = "scored"
            /\ \A i \in 1..Len(result.compliance_gaps) :
                  \E j \in 1..Len(result'.compliance_gaps) :
                      result'.compliance_gaps[j] = result.compliance_gaps[i] ]_vars

\* C12 witness: a store of two answers has been scored with two gaps, the one
\* of the store before and the one of the added answer.
C12_Witness ==
    /\ pc = "scored"
    /\ Cardinality(DOMAIN flat) = 2
    /\ result.gap_count = 2

CompliantAnswer(id) ==
    CASE id \in {"bd_07", "bd_08", "ac_03"} -> PyBool(TRUE)
      [] id \in {"bd_06", "si_04"} -> PyBool(FALSE)
      [] id = "bd_06a" -> PyList(<<ChoiceOf("bd_06a", Len(QuestionOf("bd_06a").choices))>>)
      [] OTHER -> ChoiceOf(id, 1)

OthersCompliant ==
    \A id \in DOMAIN flat \ {"ac_02"} : flat[id] = CompliantAnswer(id)

AC_02_PASSWORD_ONLY == PyStr(<<"N","o"," ","EMDASH"," ","p","a","s","s","w","o","r","d","-","o","n","l","y"," ","a","u","t","h","e","n","t","i","c","a","t","i","o","n"," ","i","s"," ","u","s","e","d">>)
AC_02_MFA_ALL_USERS == PyStr(<<"Y","e","s"," ","EMDASH"," ","M","F","A"," ","e","n","f","o","r","c","e","d"," ","f","o","r"," ","a","l","l"," ","u","s","e","r","s"," ","(","l","o","c","a","l"," ","a","n","d"," ","r","e","m","o","t","e",")">>)
IA_3_083 == <<"I","A",".","3",".","0","8","3">>

\* C14: with ac_02 the password-only choice and no other gap-triggering
\* answer there is exactly one Gap Record, HIGH, with control IA.3.083; with
\* ac_02 the fully compliant choice there is no MFA gap.
C14_PasswordOnlyOneHighGap ==
    (Scored /\ "ac_02" \in DOMAIN flat) =>
        /\ (flat["ac_02"] = AC_02_PASSWORD_ONLY /\ OthersCompliant) =>
              /\ result.gap_count = 1
              /\ Len(result.compliance_gaps) = 1
              /\ result.compliance_gaps[1].priority = "HIGH"
              /\ result.compliance_gaps[1].nist_control = IA_3_083
        /\ flat["ac_02"] = AC_02_MFA_ALL_USERS =>
              /\ ~HasGapTitled("Multi-Factor Authentication Not Fully Implemented")
              /\ OthersCompliant => result.compliance_gaps = <<>>

\* C14 witness: the password-only answer has been scored next to a compliant
\* answer and gave one gap.
C14_Witness ==
    /\ pc = "scored"
    /\ Cardinality(DOMAIN flat) = 2
    /\ "ac_02" \in DOMAIN flat
    /\ flat["ac_02"] = AC_02_PASSWORD_ONLY
    /\ OthersCompliant
    /\ result.gap_count = 1

\* The control identifiers of the gap rules in ascending order.
ControlIdsAscending ==
    <<<<"A","C",".","1",".","0","0","1">>,
      <<"A","C",".","1",".","0","0","2">>,
      <<"A","C",".","2",".","0","0","6">>,
      <<"A","T",".","2",".","0","5","6">>,
      <<"A","U",".","2",".","0","4","1">>,
      <<"C","M",".","2",".","0","6","1">>,
      <<"I","A",".","3",".","0","8","3">>,
      <<"M","P",".","2",".","1","1","9">>,
      <<"S","C",".","3",".","1","7","7">>,
      <<"S","C",".","3",".","1","8","0">>>>

\* The identifier occurs in the nist_control text of some triggered gap.
Carried(t) ==
    \E i \in 1..Len(result.compliance_gaps) :
        Contains(t, result.compliance_gaps[i].nist_control)

\* C18: nist_control_gaps lists, once each and in ascending order, exactly
\* the identifiers carried by the triggered Gap Records.
C18_ControlsDedupedSorted ==
    Scored => result.nist_control_gaps = SelectSeq(ControlIdsAscending, Carried)

\* C18 witness: both encryption gaps fired and SC.3.177 is listed once.
C18_Witness ==
    /\ pc = "scored"
    /\ HasGapTitled("CUI Not Encrypted at Rest")
    /\ HasGapTitled("CUI Not Encrypted in Transit")
    /\ result.nist_control_gaps = <<ControlIdsAscending[9]>>

\* ---------------------------------------------------------------- claims on the boundary results
\* The id has an entry holding exactly v.
Answered(id, v) == id \in DOMAIN flat /\ flat[id] = v

\* The id has no entry, or its entry is null.
Unanswered(id) == id \notin DOMAIN flat \/ flat[id] = PyNone

BucketEstimates ==
    { [bucket |-> <<"1","ENDASH","1","0">>,
        full |-> <<"1","0">>,
        fifth |-> <<"~","2"," ","(","e","s","t","i","m","a","t","e","d"," ","e","n","c","l","a","v","e"," ","s","y","s","t","e","m","s"," ","o","n","l","y",")">>,
        half |-> <<"~","5"," ","(","e","s","t","i","m","a","t","e","d",")">>],
      [bucket |-> <<"1","1","ENDASH","5","0">>,
        full |-> <<"5","0">>,
        fifth |-> <<"~","1","0"," ","(","e","s","t","i","m","a","t","e","d"," ","e","n","c","l","a","v","e"," ","s","y","s","t","e","m","s"," ","o","n","l","y",")">>,
        half |-> <<"~","2","5"," ","(","e","s","t","i","m","a","t","e","d",")">>],
      [bucket |-> <<"5","1","ENDASH","2","0","0">>,
        full |-> <<"2","0","0">>,
        fifth |-> <<"~","4","0"," ","(","e","s","t","i","m","a","t","e","d"," ","e","n","c","l","a","v","e"," ","s","y","s","t","e","m","s"," ","o","n","l","y",")">>,
        half |-> <<"~","1","0","0"," ","(","e","s","t","i","m","a","t","e","d",")">>],
      [bucket |-> <<"2","0","1","ENDASH","5","0","0">>,
        full |-> <<"5","0","0">>,
        fifth |-> <<"~","1","0","0"," ","(","e","s","t","i","m","a","t","e","d"," ","e","n","c","l","a","v","e"," ","s","y","s","t","e","m","s"," ","o","n","l","y",")">>,
        half |-> <<"~","2","5","0"," ","(","e","s","t","i","m","a","t","e","d",")">>],
      [bucket |-> <<"5","0","0","+">>,
        full |-> <<"9","9","9">>,
        fifth |-> <<"~","1","9","9"," ","(","e","s","t","i","m","a","t","e","d"," ","e","n","c","l","a","v","e"," ","s","y","s","t","e","m","s"," ","o","n","l","y",")">>,
        half |-> <<"~","4","9","9"," ","(","e","s","t","i","m","a","t","e","d",")">>] }

SEPARATED_PHYSICALLY == PyStr(<<"Y","e","s"," ","EMDASH"," ","p","h","y","s","i","c","a","l","l","y"," ","s","e","p","a","r","a","t","e"," ","(","d","i","f","f","e","r","e","n","t"," ","h","a","r","d","w","a","r","e",","," ","n","o"," ","n","e","t","w","o","r","k"," ","c","o","n","n","e","c","t","i","o","n",")">>)
SEPARATED_LOGICALLY == PyStr(<<"Y","e","s"," ","EMDASH"," ","l","o","g","i","c","a","l","l","y"," ","s","e","p","a","r","a","t","e","d"," ","(","s","e","p","a","r","a","t","e"," ","V","L","A","N"," ","/"," ","n","e","t","w","o","r","k"," ","s","e","g","m","e","n","t",")">>)
SEPARATED_PARTIALLY == PyStr(<<"P","a","r","t","i","a","l","l","y"," ","EMDASH"," ","s","o","m","e"," ","s","e","p","a","r","a","t","i","o","n"," ","e","x","i","s","t","s">>)

\* C16: the si_01 bucket maps to its ceiling; with bd_01 true the estimate is
\* the full ceiling whatever bd_02 says; otherwise ceiling // 5 for physical
\* or logical separation, ceiling // 2 for partial separation and the full
\* ceiling when separation is absent or unknown.
C16_SystemsEstimate ==
    Scored =>
        \A e \in BucketEstimates :
            Answered("si_01", PyStr(e.bucket)) =>
                result.systems_in_scope =
                    IF Answered("bd_01", PyBool(TRUE)) THEN e.full
                    ELSE IF Answered("bd_02", SEPARATED_PHYSICALLY)
                              \/ Answered("bd_02", SEPARATED_LOGICALLY) THEN e.fifth
                    ELSE IF Answered("bd_02", SEPARATED_PARTIALLY) THEN e.half
                    ELSE e.full

\* C16 witness: bucket 51-200, bd_01 false, physically separate: ~40, marked
\* as an estimate.
C16_Witness ==
    /\ Scored
    /\ Answered("si_01", PyStr(<<"5","1","ENDASH","2","0","0">>))
    /\ Answered("bd_01", PyBool(FALSE))
    /\ Answered("bd_02", SEPARATED_PHYSICALLY)
    /\ result.systems_in_scope = <<"~","4","0"," ","(","e","s","t","i","m","a","t","e","d"," ","e","n","c","l","a","v","e"," ","s","y","s","t","e","m","s"," ","o","n","l","y",")">>

\* C17: scope_reduction_possible is true iff bd_01 is explicitly false and
\* bd_01a is true or bd_04 is true; an unanswered bd_01 yields false.
C17_ScopeReductionRule ==
    Scored =>
        /\ result.scope_reduction_possible <=>
              /\ Answered("bd_01", PyBool(FALSE))
              /\ (Answered("bd_01a", PyBool(TRUE)) \/ Answered("bd_04", PyBool(TRUE)))
        /\ Unanswered("bd_01") => ~result.scope_reduction_possible

\* C17 witness: bd_01 false and bd_04 true with bd_01a unanswered gives true.
C17_Witness ==
    /\ Scored
    /\ Answered("bd_01", PyBool(FALSE))
    /\ "bd_01a" \notin DOMAIN flat
    /\ Answered("bd_04", PyBool(TRUE))
    /\ result.scope_reduction_possible

\* ---------------------------------------------------------------- claims on ScopingAssessment.run
\* The ids with an entry in the Response Store loaded by --resume, and the
\* loaded store itself.
LoadedIds == UNION { DOMAIN resume.responses[k] : k \in DOMAIN resume.responses }
LoadedAnswers == Flatten(resume.responses)

\* The question has no dependency, or the loaded store holds the expected
\* value under the id it depends on.
SatisfiedByLoaded(q) ==
    \/ ~q.depends_on.has
    \/ /\ q.depends_on.id \in LoadedIds
       /\ LoadedAnswers[q.depends_on.id] = q.depends_on.expected

\* The ids with an answer at the end of the run.
RecordedIds == UNION { DOMAIN responses[k] : k \in DOMAIN responses }

\* C19: after a resume no question whose id has an entry in the loaded store
\* is presented, and every remaining question whose dependency the loaded
\* answers satisfy is presented (and so has an answer when the run ends).
C19_ResumePresentsRemaining ==
    /\ [][ (resume.exists /\ pc = "run" /\ printed' # printed)
              => questions[idx].id \notin LoadedIds ]_vars
    /\ [] ( (pc = "finished" /\ resume.exists) =>
              \A m \in 1..Len(MODULES) :
                 \A i \in 1..Len(ModuleQuestions(m)) :
                    (ModuleQuestions(m)[i].id \notin LoadedIds
                        /\ SatisfiedByLoaded(ModuleQuestions(m)[i]))
                    => ModuleQuestions(m)[i].id \in RecordedIds )

\* The Response Store in memory: the completed modules and the answers the
\* running engine has recorded.
MemoryStore ==
    IF pc = "run" THEN answers @@ Flatten(responses) ELSE Flatten(responses)

\* The Response Store on disk: the file at output_path once it is written,
\* the resume file before.
PersistedStore ==
    IF saved.exists THEN Flatten(saved.responses)
    ELSE IF resume.exists THEN Flatten(resume.responses)
    ELSE EmptyDict

\* C20: at an abort at any prompt the persisted Response Store equals the
\* Response Store in memory: every answer recorded before is in the
\* checkpoint.
C20_AbortLosesNothing ==
    [][ pc' = "aborted" => PersistedStore = MemoryStore ]_vars

\* ---------------------------------------------------------------- claims on the checkpoint files
\* The keys of the modules, in the order of MODULES.
ModuleKeys == { MODULES[m].key : m \in 1..Len(MODULES) }

\* C21: every file the run writes at output_path holds the metadata block
\* and the responses as they are in memory; it holds the score exactly when
\* it is the file _finalize writes, and then all four modules have
\* responses and the score is the result of the scorer.
C21_CheckpointContents ==
    [][ saved' # saved =>
          /\ saved'.exists /\ saved'.parses
          /\ saved'.metadata /\ saved'.has_responses
          /\ saved'.responses = responses'
          /\ saved'.has_score <=> pc' = "finished"
          /\ saved'.has_score =>
                /\ ModuleKeys \subseteq DOMAIN saved'.responses
                /\ saved'.score = result' ]_vars

\* C21 witness: a run without resume has written its four checkpoints and
\* then the final file, which holds the score.
C21_Witness ==
    /\ pc = "finished"
    /\ ~resume.exists
    /\ saved.has_score
    /\ saved.score = result
    /\ DOMAIN saved.responses = ModuleKeys

\* The file is not a checkpoint: it does not parse, or lacks the metadata
\* block or the responses.
Incompatible(file) ==
    file.exists /\ (~file.parses \/ ~file.metadata \/ ~file.has_responses)

\* C22: with an unparseable or incomplete resume file the run never gets
\* past _load_resume: it ends with the error before the first prompt.
C22_CorruptResumeIsFatal ==
    Incompatible(resume) => pc \in {"start", "crashed"}

\* ---------------------------------------------------------------- claims on the answer collectors
\* The value is of the kind the question declares: a boolean, one of the
\* choices, a non-empty list of choices without repetition, a string, an
\* integer.
ConformsToKind(q, v) ==
    CASE q.qtype = YES_NO       -> IsBool(v)
      [] q.qtype = CHOICE       ->
            IsStr(v) /\ \E i \in 1..Len(q.choices) : v.s = q.choices[i]
      [] q.qtype = MULTI_CHOICE ->
            /\ IsList(v)
            /\ Len(v.l) > 0
            /\ \A i \in 1..Len(v.l) :
                  IsStr(v.l[i]) /\ \E j \in 1..Len(q.choices) : v.l[i].s = q.choices[j]
            /\ \A i, j \in 1..Len(v.l) : v.l[i] = v.l[j] => i = j
      [] q.qtype = TEXT         -> IsStr(v)
      [] q.qtype = NUMBER       -> v.k = "int"

\* C23: every answer the engine has recorded is of the kind its question
\* declares.
C23_AnswerMatchesKind ==
    \A i \in 1..Len(questions) :
        questions[i].id \in DOMAIN answers =>
            ConformsToKind(questions[i], answers[questions[i].id])

\* ---------------------------------------------------------------- claims on the gap records
\* The title and the priority of the record of each rule, in the order the
\* rules are evaluated.
GapRuleOrder ==
    << [title |-> "Multi-Factor Authentication Not Fully Implemented", priority |-> "HIGH"],
       [title |-> "Remote Access Lacks MFA or VPN Protection", priority |-> "HIGH"],
       [title |-> "CUI Not Encrypted at Rest", priority |-> "HIGH"],
       [title |-> "CUI Not Encrypted in Transit", priority |-> "HIGH"],
       [title |-> "No Network Segmentation for CUI Systems", priority |-> "HIGH"],
       [title |-> "Shared Services Span CUI and Non-CUI Environments", priority |-> "HIGH"],
       [title |-> "No System Security Plan (SSP)", priority |-> "HIGH"],
       [title |-> "SPRS Score Not Submitted", priority |-> "MEDIUM"],
       [title |-> "No Audit Logging on CUI Systems", priority |-> "HIGH"],
       [title |-> "No Separation of Privileged and Standard Accounts", priority |-> "MEDIUM"],
       [title |-> "Removable Media Not Controlled", priority |-> "MEDIUM"],
       [title |-> "Personal Devices (BYOD) Used for Work Activities", priority |-> "MEDIUM"],
       [title |-> "No Formal Cybersecurity Awareness Training Program", priority |-> "MEDIUM"],
       [title |-> "Subcontractors Handling CUI Lack CMMC Certification", priority |-> "HIGH"] >>

\* The rules whose record has the title.
RulesTitled(title) ==
    { r \in 1..Len(GapRuleOrder) : GapRuleOrder[r].title = title }

\* C24: every gap record is the record of exactly one rule and carries the
\* priority of that rule, and the records are in strictly increasing rule
\* order, so no two records share a title.
C24_OneRecordPerRuleInOrder ==
    Scored =>
        LET gaps == result.compliance_gaps
        IN /\ \A i \in 1..Len(gaps) :
                 /\ Cardinality(RulesTitled(gaps[i].title)) = 1
                 /\ gaps[i].priority \in {"HIGH", "MEDIUM"}
                 /\ \A r \in RulesTitled(gaps[i].title) :
                       gaps[i].priority = GapRuleOrder[r].priority
           /\ \A i, j \in 1..Len(gaps) :
                 i < j => \A r \in RulesTitled(gaps[i].title),
                             t \in RulesTitled(gaps[j].title) : r < t

\* C24 witness: the BYOD rule (twelfth, MEDIUM) and the MFA rule (first,
\* HIGH) both fire: the MFA record comes first.
C24_Witness ==
    /\ Scored
    /\ DOMAIN flat = {"si_04", "ac_02"}
    /\ Len(result.compliance_gaps) = 2
    /\ result.compliance_gaps[1].title = "Multi-Factor Authentication Not Fully Implemented"
    /\ result.compliance_gaps[1].priority = "HIGH"
    /\ result.compliance_gaps[2].title = "Personal Devices (BYOD) Used for Work Activities"
    /\ result.compliance_gaps[2].priority = "MEDIUM"

\* ---------------------------------------------------------------- claims on the shipped catalog
\* C25: in each shipped module every dependency names a question at an
\* earlier position of the same module's list; so when the engine of a
\* module evaluates a dependent question, the question it depends on is
\* behind the loop.
C25_DependenciesPointBack ==
    /\ \A m \in 1..Len(MODULES) :
          \A i \in 1..Len(MODULES[m].questions) :
             MODULES[m].questions[i].depends_on.has =>
                \E j \in 1..(i - 1) :
                   MODULES[m].questions[j].id = MODULES[m].questions[i].depends_on.id
    /\ (pc = "run" /\ module <= Len(MODULES) /\ idx <= Len(questions)
           /\ questions[idx].depends_on.has) =>
          \E j \in 1..(idx - 1) : questions[j].id = questions[idx].depends_on.id

\* C25 witness: the boundary engine is at bd_01a, which depends on bd_01,
\* and bd_01 has its answer.
C25_Witness ==
    /\ pc = "run"
    /\ MODULES[module].key = "boundary"
    /\ idx = 2
    /\ questions[idx].id = "bd_01a"
    /\ questions[idx].depends_on.id = "bd_01"
    /\ "bd_01" \in DOMAIN answers

\* ---------------------------------------------------------------- claims on the flat store
\* No two questions of the four shipped lists have the same id.
ShippedIdsUnique ==
    \A i, j \in 1..Len(ShippedQuestions) :
        ShippedQuestions[i].id = ShippedQuestions[j].id => i = j

\* C26: no two shipped questions share an id; while a process runs, an
\* answer the engine recorded and a module's responses are never replaced;
\* and when the run is complete every answer of every module is in the
\* scorer's flat store under its id with its value.
C26_FlatteningLosesNothing ==
    /\ [] ShippedIdsUnique
    /\ [][ /\ (pc = "run" /\ pc' \in {"run", "done"}) =>
                \A id \in DOMAIN answers :
                    id \in DOMAIN answers' /\ answers'[id] = answers[id]
           /\ pc' # "start" =>
                \A k \in DOMAIN responses :
                    k \in DOMAIN responses' /\ responses'[k] = responses[k] ]_vars
    /\ [] (pc = "finished" =>
             \A k \in DOMAIN responses :
                \A id \in DOMAIN responses[k] :
                   id \in DOMAIN flat /\ flat[id] = responses[k][id])

\* C26 witness: a complete run without resume in which every module
\* recorded two answers: the flat store holds the eight of them.
C26_Witness ==
    /\ pc = "finished"
    /\ ~resume.exists
    /\ \A k \in ModuleKeys : Cardinality(DOMAIN responses[k]) = 2
    /\ Cardinality(DOMAIN flat) = 8
    /\ flat["bd_01a"] = responses["boundary"]["bd_01a"]

\* ---------------------------------------------------------------- claims on resumed runs
\* The responses _load_resume took from the resume file.
Loaded == _load_resume(resume)

\* C27: in a run with --resume, a step of the module loop on a module whose
\* key is among the loaded responses moves on to the next module, and no
\* question is presented while the loop is at such a module; a step on a
\* module whose key is absent starts its engine at the first question
\* with an empty answer store; and when the run is complete the loaded
\* answers are unchanged in the responses, in the final file and in the
\* scorer's flat store.
C27_LoadedModulesSkippedWhole ==
    /\ [][ (resume.exists /\ module <= Len(MODULES)) =>
             /\ (pc = "modules" /\ MODULES[module].key \in DOMAIN Loaded) =>
                   /\ pc' = "modules"
                   /\ module' = module + 1
                   /\ printed' = printed
                   /\ responses' = responses
             /\ (pc = "modules" /\ MODULES[module].key \notin DOMAIN Loaded) =>
                   /\ pc' = "run"
                   /\ questions' = ModuleQuestions(module)
                   /\ idx' = 1
                   /\ answers' = EmptyDict
             /\ (pc = "run" /\ printed' # printed) =>
                   MODULES[module].key \notin DOMAIN Loaded ]_vars
    /\ [] ((pc = "finished" /\ resume.exists) =>
             \A k \in DOMAIN Loaded :
                /\ k \in DOMAIN responses /\ responses[k] = Loaded[k]
                /\ k \in DOMAIN saved.responses /\ saved.responses[k] = Loaded[k]
                /\ \A id \in DOMAIN Loaded[k] :
                      id \in DOMAIN flat /\ flat[id] = Loaded[k][id])

\* C27 witness: a run resumed from a file holding data_flow = {df_01: true}
\* is complete: data_flow is as loaded, the three other modules were run.
C27_Witness ==
    /\ pc = "finished"
    /\ resume.exists
    /\ DOMAIN Loaded = {"data_flow"}
    /\ responses["data_flow"] = ("df_01" :> PyBool(TRUE))
    /\ saved.responses["data_flow"] = ("df_01" :> PyBool(TRUE))
    /\ flat["df_01"] = PyBool(TRUE)
    /\ DOMAIN responses = ModuleKeys
    /\ Cardinality(DOMAIN responses["boundary"]) = 2

\* ---------------------------------------------------------------- claims on runs without resume
\* The keys of the first n modules.
FirstModules(n) == { MODULES[m].key : m \in 1..n }

\* C28: in a run without --resume the responses in memory are those of the
\* modules before the position of the loop, the file at output_path (once
\* written) holds exactly these responses, and the scorer has run only if
\* all four modules have responses; the file is written with the answers
\* of an engine that has gone through all its questions, never with those
\* of a module in progress.
C28_PersistedIsCompletedPrefix ==
    /\ [] (~resume.exists =>
             /\ DOMAIN responses = FirstModules(module - 1)
             /\ saved.exists => saved.responses = responses
             /\ ~saved.exists => responses = EmptyDict
             /\ (pc = "run" /\ module <= Len(MODULES)) =>
                   MODULES[module].key \notin DOMAIN saved.responses
             /\ (result # PyNone \/ saved.has_score) =>
                   DOMAIN responses = ModuleKeys)
    /\ [][ (~resume.exists /\ saved' # saved /\ pc' # "finished") =>
             /\ pc = "done"
             /\ idx > Len(questions)
             /\ DOMAIN saved'.responses = DOMAIN saved.responses \cup {MODULES[module].key}
             /\ saved'.responses[MODULES[module].key] = answers ]_vars

\* C28 witness: a run without resume is aborted at the second question of
\* the boundary module: the file holds system_inventory and data_flow, the
\* answer of bd_01 is in the engine only.
C28_Witness ==
    /\ ~resume.exists
    /\ pc = "aborted"
    /\ module = 3
    /\ DOMAIN answers = {"bd_01"}
    /\ saved.exists
    /\ DOMAIN saved.responses = {"system_inventory", "data_flow"}
    /\ result = PyNone

====
